---- MODULE Spec2Model ----
(***************************************************************************)
(* ML task-scheduler prediction service (ml-service).                      *)
(*                                                                         *)
(* Part 1: the TaskPredictor registry of model.py (self.model,             *)
(* self.version, self.model_type, self._training_data and the joblib       *)
(* record on disk) driven by request threads, one statement per step.      *)
(* The Flask server handles each request in its own thread and model.py    *)
(* takes no lock, so the steps of several requests interleave (Spec);      *)
(* SpecSeq runs the same steps with one request in flight at a time.       *)
(*                                                                         *)
(* Part 2: the confidence computation of predict / predict_batch as a      *)
(* pure function of the ensemble's per-member variance (SpecConf).         *)
(*                                                                         *)
(* Part 3: the /api/predict/batch handler of app.py (SpecBatch).           *)
(*                                                                         *)
(* Part 4: what the request handlers of app.py hand to the model           *)
(* (SpecIngress).                                                          *)
(*                                                                         *)
(* Part 5: the ConformalPredictor of research.py (SpecCal).                *)
(*                                                                         *)
(* Part 6: the /api/tune handler and its trial loop (SpecTune).            *)
(*                                                                         *)
(* Part 7: the HTTP front of the registry: the API-key decorator, the      *)
(* entry checks of the handlers and the handlers that only read the        *)
(* registry, one request at a time (SpecHttp); and the interval handler    *)
(* running beside a switch_model (SpecPar).                                *)
(*                                                                         *)
(* Part 8: the feature importances train reports (SpecImp).                *)
(*                                                                         *)
(* Part 9: the rate_limit decorator of app.py run by concurrent threads    *)
(* (SpecRate).                                                             *)
(*                                                                         *)
(* Part 10: the PPOSchedulerEnv of research.py (SpecEnv).                  *)
(*                                                                         *)
(* Reals are fixed-point integers: confidences and times in hundredths.    *)
(***************************************************************************)
EXTENDS Integers, Sequences, FiniteSets, TLC

VARIABLES
    \* ---- registry (TaskPredictor attributes, model.py:24-27,166) ----
    heap,           \* the estimator objects created so far: heap[i] = [family, fitted]
    model,          \* self.model: index into heap
    version,        \* self.version: the timestamp token, as whole seconds
    model_type,     \* self.model_type
    training_data,  \* self._training_data: sequence of batches (<<>>: attribute not set)
    disk,           \* the joblib record at model_path
    now,            \* wall clock, in ticks of 1/TicksPerSecond second
    xgb,            \* XGBOOST_AVAILABLE (model.py:14-18)
    instances,      \* history: the complete (model, version, model_type) triples minted
    nops,           \* number of requests started
    \* ---- request threads ----
    pc,             \* statement each thread is at
    op,             \* the request a thread serves
    reqType,        \* switch_model's model_type argument
    X,              \* train's X, y argument (sequence of batches)
    inc,            \* retrain's incremental flag
    fam,            \* family selected by train's if/elif/else
    mine,           \* history: the estimator this thread's train created (0: none yet)
    res,            \* outcome of the request
    ret,            \* values returned to the caller
    snap,           \* history: the registry as it was when the request started
    obs,            \* what a predict request read
    \* ---- confidence computation ----
    cPath,          \* how the active model exposes its ensemble members
    cVar,           \* per-input variance of the member predictions, in tenths
    cSingle,        \* confidence returned by predict, in hundredths
    cBatch,         \* confidences returned by predict_batch, in hundredths
    cDone,          \* the calls made so far
    cPred,          \* self.model.predict(X): the point estimate per input, in thousandths
    cPointSingle,   \* point estimate returned by predict
    cPointBatch,    \* point estimates returned by predict_batch
    \* ---- batch handler ----
    bTasks,         \* data['tasks'] of the request
    bIdx,           \* idx of the validation loop: items handled so far
    bErrors,        \* errors: sequence of [index, error]
    bValid,         \* valid_tasks: sequence of [index, features]
    bPredictions,   \* predictions: the rounded predictedTime of each scored item
    bTotal,         \* total_time, in thousandths
    bResponse,      \* the response sent
    bPc,            \* where the handler is
    predictFn,      \* the active model: "unfitted" or the name of a fitted model
    \* ---- request handlers: what reaches the model ----
    fitLabels,      \* the actualTime labels the active model was last fitted on
    storedLabels,   \* the labels in self._training_data ({}: attribute not set)
    seen,           \* history: the feature vectors handed to the model so far
    lastResponse,   \* the last response sent
    shapAvail,      \* SHAP_AVAILABLE (research.py)
    calls,          \* number of requests handled
    \* ---- ConformalPredictor (research.py:178-218) ----
    quantile,       \* self._quantile: [set, num, den], the half-width num / den
    alpha,          \* self.alpha, in hundredths
    qLevel,         \* history: q_level of the last calibrate, as [num, den]
    calSet,         \* history: the (actual, predicted) pairs of the last calibrate
    calLast,        \* the last call and how it ended
    calibrations,   \* history: number of calibrate calls that returned
    calCalls,       \* number of calls made
    \* ---- POST /api/tune (app.py:656-688) ----
    tRequest,       \* the request's nTrials
    tTrials,        \* n_trials handed to study.optimize
    tRun,           \* history: trials run so far
    tPc,            \* where the handler is
    tStatus,        \* status of the response
    tOptuna,        \* OPTUNA_AVAILABLE (research.py)
    tError,         \* the exception that ended the request ("none": no exception)
    tBefore,        \* history: the registry when the request arrived
    \* ---- the HTTP front of the registry (app.py:91-105, 372-653) ----
    apiKey,         \* ML_API_KEY ("": the environment does not set it)
    hReq,           \* the request being served: [route, key, batch]
    hResp,          \* status answered before the handler body (0: handed to the body)
    hBefore,        \* history: the registry when the request arrived
    hAdmitted,      \* number of requests handed to a handler body
    cmp,            \* compare_models: [i: position in its loop, orig: original_type]
    captured,       \* per thread: [model: the estimator its ConformalPredictor holds,
                    \*              q: the half-width it calibrated]
    \* ---- the feature importances of train's metrics (model.py:123-140) ----
    impExposes,     \* hasattr(self.model, 'feature_importances_')
    impRaw,         \* self.model.feature_importances_, in hundred-thousandths
    impMetrics,     \* metrics['feature_importance'], in ten-thousandths
    impPc,          \* where train is
    \* ---- rate_limit (app.py:107-130) ----
    rlStore,        \* _rate_limit_store: per IP the list of admission times
    rlClock,        \* time.time(), in seconds
    rlPc,           \* statement each thread is at
    rlIp,           \* ip of the request a thread serves
    rlNow,          \* now of the request a thread serves
    rlList,         \* the list the comprehension built, not yet assigned
    rlAdmitted,     \* history: the requests handed to the handler, as [ip, at]
    rlCount,        \* number of requests started
    \* ---- PPOSchedulerEnv (research.py:266-343) ----
    envN,           \* self.n_resources
    envMax,         \* self.max_steps
    envLoads,       \* self.resource_loads
    envStep,        \* self.step_count
    envTask,        \* self._current_task is not None
    envDone,        \* done of the last step that returned
    envLast,        \* the last call and how it ended
    envWas          \* history: loads, step_count and task before the last call

regVars == <<heap, model, version, model_type, training_data, disk, now, xgb,
             instances, nops>>
thrVars == <<pc, op, reqType, X, inc, fam, mine, res, ret, snap, obs>>
confVars == <<cPath, cVar, cSingle, cBatch, cDone, cPred, cPointSingle, cPointBatch>>
batchVars == <<bTasks, bIdx, bErrors, bValid, bPredictions, bTotal, bResponse, bPc,
               predictFn>>
ingVars == <<fitLabels, storedLabels, seen, lastResponse, shapAvail, calls>>
calVars == <<quantile, alpha, qLevel, calSet, calLast, calibrations, calCalls>>
tuneVars == <<tRequest, tTrials, tRun, tPc, tStatus, tOptuna, tError, tBefore>>
httpVars == <<apiKey, hReq, hResp, hBefore, hAdmitted, cmp, captured>>
impVars == <<impExposes, impRaw, impMetrics, impPc>>
rateVars == <<rlStore, rlClock, rlPc, rlIp, rlNow, rlList, rlAdmitted, rlCount>>
envVars == <<envN, envMax, envLoads, envStep, envTask, envDone, envLast, envWas>>
lateVars == <<httpVars, impVars, rateVars, envVars>>
extVars == <<ingVars, calVars, tuneVars, lateVars>>
vars == <<regVars, thrVars, confVars, batchVars, extVars>>

-----------------------------------------------------------------------------
(* Bounds of the model *)

MaxVar == 15           \* largest finite variance tried, in tenths
MaxConfBatch == 2      \* inputs in one predict_batch call of the confidence part
MaxItems == 3          \* tasks in one batch request
MaxOps == 2            \* requests started in one run
MaxCalls == 2          \* requests handled in one run of the handlers part
MaxCal == 3            \* examples in one calibration set
MaxCalCalls == 3       \* calls made on one ConformalPredictor
MaxQuery == 2          \* inputs of one predict_interval call
MaxClock == 4          \* last clock tick
TicksPerSecond == 2    \* clock resolution: ticks per wall-clock second
MaxRl == 4             \* requests that reach the rate limiter in one run
MaxRlClock == 3        \* last second of the rate limiter's clock
MaxEpisode == 8        \* largest max_steps of a PPOSchedulerEnv
MaxResources == 2      \* largest n_resources of a PPOSchedulerEnv

RlThreads == {"t1", "t2"}
Ips == {"a", "b"}

Writers == {"w1", "w2"}
Readers == {"r1"}
Threads == Writers \cup Readers

-----------------------------------------------------------------------------
(* Program constants *)

CV_FOLDS == 5          \* cross_val_score(..., cv=5)
BATCH_LIMIT == 1000    \* if len(data['tasks']) > 1000
CONF_DEFAULT == 75     \* confidence = 0.75
CONF_MIN == 50         \* max(0.5, ...), np.clip(..., 0.5, ...)
CONF_MAX == 99         \* min(0.99, ...), np.clip(..., ..., 0.99)
TRIAL_CAP == 200       \* min(int(data.get('nTrials', 50)), 200)
DEFAULT_TRIALS == 50   \* data.get('nTrials', 50)
LOAD_STEP == 15        \* min(100, load + 15)
LOAD_CAP == 100        \* min(100, load + 15)

ValidTypes == {"random_forest", "xgboost", "gradient_boosting"}
AllTypes == ValidTypes \cup {"invalid_model"}

\* Training batches a caller can pass.  A batch stands for a block of examples:
\* its size, and whether fitting accepts it (a NaN or non-numeric label makes
\* sklearn's fit raise ValueError).
Batches == {"A", "S", "N"}
BatchSize(b) ==
    CASE b = "A" -> 10
      [] b = "S" -> 2
      [] b = "N" -> 10
      [] b = "SYN" -> 1000
      [] b = "Q" -> 4
      [] b = "F" -> 5
      [] b = "E" -> 9
BatchFinite(b) == b # "N"

RECURSIVE Samples(_)
Samples(ds) == IF ds = <<>> THEN 0 ELSE BatchSize(Head(ds)) + Samples(Tail(ds))

\* self.model.fit(X, y) raises
FitRaises(ds) == \E i \in 1..Len(ds) : ~BatchFinite(ds[i])
\* cross_val_score(self.model, X, y, cv=5) raises: fewer samples than folds
CvRaises(ds) == Samples(ds) < CV_FOLDS

\* the version token of model.py:118: strftime('%Y%m%d%H%M%S') drops the
\* sub-second part of the clock
VersionToken(t) == t \div TicksPerSecond

-----------------------------------------------------------------------------
(* Part 1.  TaskPredictor: construction and persistence *)

TrainOps == {"train", "retrain", "switch_model"}

NoRecord == [present |-> FALSE, family |-> "none", fitted |-> FALSE,
             version |-> 0, model_type |-> "none"]

\* train's if / elif / else over self.model_type (model.py:80, 91, 100)
SelectFamily(mt, avail) ==
    IF mt = "xgboost" /\ avail THEN "xgboost"
    ELSE IF mt = "gradient_boosting" THEN "gradient_boosting"
    ELSE "random_forest"

\* train's else branch as it would be without self.model_type = 'random_forest'
TypeAfterCreate_Keep(mt, f) == mt

\* self.model_type after the branch: only the else branch assigns it (model.py:102)
TypeAfterCreate(mt, f) == IF f = "random_forest" THEN "random_forest" ELSE mt

\* _save_model as it would be without the 'model_type' key
SaveRecord_NoTypeTag(h, m, v, mt) ==
    [present |-> TRUE, family |-> h[m].family, fitted |-> h[m].fitted,
     version |-> v, model_type |-> "absent"]

\* _save_model: joblib.dump({'model', 'version', 'model_type'}) (model.py:146-153)
SaveRecord(h, m, v, mt) ==
    [present |-> TRUE, family |-> h[m].family, fitted |-> h[m].fitted,
     version |-> v, model_type |-> mt]

\* joblib.load succeeds: the file exists and its estimator class can be imported
Loadable(rec, avail) == rec.present /\ (rec.family = "xgboost" => avail)

\* data.get('model_type', 'random_forest') (model.py:37)
LoadedType(rec) == IF rec.model_type = "absent" THEN "random_forest" ELSE rec.model_type

\* __init__ + _load_or_create_model: the registry a new TaskPredictor ends with,
\* given the file at model_path, the constructor's model_type and the clock.
LoadOrCreate(rec, ctorType, clock, avail) ==
    IF Loadable(rec, avail)
    THEN [family |-> rec.family, fitted |-> rec.fitted, version |-> rec.version,
          model_type |-> LoadedType(rec), disk |-> rec, loaded |-> TRUE]
    ELSE LET f == SelectFamily(ctorType, avail)
             mt == TypeAfterCreate(ctorType, f)
             v == VersionToken(clock)
         IN [family |-> f, fitted |-> TRUE, version |-> v, model_type |-> mt,
             disk |-> SaveRecord(<<[family |-> f, fitted |-> TRUE]>>, 1, v, mt),
             loaded |-> FALSE]

\* files a previous run of the service may have left at model_path
PriorRecords ==
    {NoRecord}
    \cup {[present |-> TRUE, family |-> f, fitted |-> TRUE, version |-> 0,
           model_type |-> f] : f \in ValidTypes}
    \cup {[present |-> TRUE, family |-> "random_forest", fitted |-> TRUE,
           version |-> 0, model_type |-> "absent"]}

NoSnap == [model |-> 0, version |-> 0, model_type |-> "none", training_data |-> <<>>]
NoObs == [model |-> 0, fitted |-> FALSE, version |-> 0, during |-> FALSE]
NoRet == [model_type |-> "none", version |-> 0, samples |-> 0]

Registry == [model |-> model, version |-> version, model_type |-> model_type,
             training_data |-> training_data]

ThreadsIdle ==
    /\ pc = [t \in Threads |-> "idle"]
    /\ op = [t \in Threads |-> "none"]
    /\ reqType = [t \in Threads |-> "none"]
    /\ X = [t \in Threads |-> <<>>]
    /\ inc = [t \in Threads |-> FALSE]
    /\ fam = [t \in Threads |-> "none"]
    /\ mine = [t \in Threads |-> 0]
    /\ res = [t \in Threads |-> "none"]
    /\ ret = [t \in Threads |-> NoRet]
    /\ snap = [t \in Threads |-> NoSnap]
    /\ obs = [t \in Threads |-> NoObs]

ConfIdle ==
    /\ cPath = "none" /\ cVar = <<>> /\ cSingle = 0 /\ cBatch = <<>> /\ cDone = {}
    /\ cPred = <<>> /\ cPointSingle = 0 /\ cPointBatch = <<>>

BatchIdle ==
    /\ bTasks = <<>> /\ bIdx = 0 /\ bErrors = <<>> /\ bValid = <<>>
    /\ bPredictions = <<>> /\ bTotal = 0 /\ bResponse = [status |-> 0] /\ bPc = "off"
    /\ predictFn = "none"

IngIdle ==
    /\ fitLabels = {} /\ storedLabels = {} /\ seen = {}
    /\ lastResponse = [route |-> "none", status |-> 0, predictedTime |-> 0]
    /\ shapAvail = FALSE /\ calls = 0

\* self._quantile = None (research.py:196)
None == [set |-> FALSE, num |-> 0, den |-> 1]

NoCall == [op |-> "none", outcome |-> "none", points |-> <<>>, intervals |-> <<>>,
           width |-> None]

CalIdle ==
    /\ quantile = None /\ alpha = 0 /\ qLevel = [num |-> 0, den |-> 1] /\ calSet = <<>>
    /\ calLast = NoCall /\ calibrations = 0 /\ calCalls = 0

NoRequest == [kind |-> "none", nTrials |-> 0, modelType |-> "none"]

TuneIdle ==
    /\ tRequest = NoRequest /\ tTrials = 0 /\ tRun = 0 /\ tPc = "off" /\ tStatus = 0
    /\ tOptuna = FALSE /\ tError = "none" /\ tBefore = NoSnap

NoHttp == [route |-> "none", key |-> "absent", batch |-> "none"]
NoCmp == [i |-> 0, orig |-> "none"]
NoCapture == [model |-> 0, q |-> 0]

HttpIdle ==
    /\ apiKey = "" /\ hReq = NoHttp /\ hResp = 0 /\ hBefore = NoSnap /\ hAdmitted = 0
    /\ cmp = NoCmp /\ captured = [t \in Threads |-> NoCapture]

ImpIdle ==
    impExposes = FALSE /\ impRaw = <<>> /\ impMetrics = <<>> /\ impPc = "off"

RateIdle ==
    /\ rlStore = [i \in Ips |-> <<>>] /\ rlClock = 0
    /\ rlPc = [t \in RlThreads |-> "off"] /\ rlIp = [t \in RlThreads |-> "none"]
    /\ rlNow = [t \in RlThreads |-> 0] /\ rlList = [t \in RlThreads |-> <<>>]
    /\ rlAdmitted = <<>> /\ rlCount = 0

NoEnv == [loads |-> <<>>, step |-> 0, task |-> FALSE]

EnvIdle ==
    /\ envN = 0 /\ envMax = 0 /\ envLoads = <<>> /\ envStep = 0 /\ envTask = FALSE
    /\ envDone = FALSE /\ envLast = "off" /\ envWas = NoEnv

LateIdle == HttpIdle /\ ImpIdle /\ RateIdle /\ EnvIdle

\* the parts after the batch handler at rest
ExtIdle == IngIdle /\ CalIdle /\ TuneIdle /\ LateIdle

\* The registry after predictor = TaskPredictor(...) at start-up (app.py:161)
Constructed ==
    /\ xgb \in BOOLEAN
    /\ now = TicksPerSecond
    /\ nops = 0
    /\ \E rec \in PriorRecords, ctorType \in AllTypes :
          LET r == LoadOrCreate(rec, ctorType, now, xgb) IN
          /\ heap = <<[family |-> r.family, fitted |-> r.fitted]>>
          /\ model = 1
          /\ version = r.version
          /\ model_type = r.model_type
          /\ training_data = <<>>
          /\ disk = r.disk
          /\ instances = {<<1, r.version, r.model_type>>}

\* The state at start-up, before the first request
Init ==
    /\ Constructed
    /\ ThreadsIdle
    /\ ConfIdle
    /\ BatchIdle
    /\ ExtIdle

-----------------------------------------------------------------------------
(* Part 1.  TaskPredictor: the requests, one statement per step *)

\* the other parts of the model stay as they are
RegistryOnly == UNCHANGED <<confVars, batchVars, extVars>>

\* the statements of train, retrain and switch_model that read or write the registry
TrainPcs == {"combine", "settype", "branch", "create", "fit", "cv", "version", "save",
             "ret"}
TrainingInFlight == {t \in Writers : pc[t] \in TrainPcs}

AllIdle == \A t \in Threads : pc[t] = "idle"

\* a request may start: Spec lets requests overlap (serial = FALSE), SpecSeq
\* admits one at a time
MayStart(t, serial) ==
    /\ pc[t] = "idle"
    /\ nops < MaxOps
    /\ serial => AllIdle

Start(t, o, first) ==
    /\ pc' = [pc EXCEPT ![t] = first]
    /\ RegistryOnly
    /\ op' = [op EXCEPT ![t] = o]
    /\ snap' = [snap EXCEPT ![t] = Registry]
    /\ nops' = nops + 1

Goto(t, next) == pc' = [pc EXCEPT ![t] = next] /\ RegistryOnly

\* the request ends by raising exc
Raise(t, exc) ==
    /\ pc' = [pc EXCEPT ![t] = "done"]
    /\ RegistryOnly
    /\ res' = [res EXCEPT ![t] = exc]

\* predictor.train(np.array(X), np.array(y))  (app.py:414, model.py:77)
BeginTrain(t, serial) ==
    /\ t \in Writers
    /\ MayStart(t, serial)
    /\ \E b \in Batches : X' = [X EXCEPT ![t] = <<b>>]
    /\ Start(t, "train", "branch")
    /\ UNCHANGED <<heap, model, version, model_type, training_data, disk, now, xgb,
                   instances, reqType, inc, fam, mine, res, ret, obs>>

\* predictor.retrain(X, y, incremental=incremental)  (app.py:553, model.py:156)
BeginRetrain(t, serial) ==
    /\ t \in Writers
    /\ MayStart(t, serial)
    /\ \E b \in Batches : X' = [X EXCEPT ![t] = <<b>>]
    /\ \E i \in BOOLEAN : inc' = [inc EXCEPT ![t] = i]
    /\ Start(t, "retrain", "combine")
    /\ UNCHANGED <<heap, model, version, model_type, training_data, disk, now, xgb,
                   instances, reqType, fam, mine, res, ret, obs>>

\* retrain as it would be if it always trained on the new examples alone
Combined_NewOnly(stored, new, incremental) == new

\* retrain: combine with the stored data and store the result (model.py:158-166)
Combined(stored, new, incremental) ==
    IF incremental /\ stored # <<>> THEN stored \o new ELSE new

Combine(t) ==
    /\ pc[t] = "combine"
    /\ X' = [X EXCEPT ![t] = Combined(training_data, X[t], inc[t])]
    /\ training_data' = Combined(training_data, X[t], inc[t])
    /\ Goto(t, "branch")
    /\ UNCHANGED <<heap, model, version, model_type, disk, now, xgb, instances, nops,
                   op, reqType, inc, fam, mine, res, ret, snap, obs>>

\* predictor.switch_model(model_type)  (app.py:456, model.py:170)
BeginSwitch(t, serial) ==
    /\ t \in Writers
    /\ MayStart(t, serial)
    /\ \E mt \in AllTypes : reqType' = [reqType EXCEPT ![t] = mt]
    /\ Start(t, "switch_model", "validate")
    /\ UNCHANGED <<heap, model, version, model_type, training_data, disk, now, xgb,
                   instances, X, inc, fam, mine, res, ret, obs>>

\* switch_model as it would be without the valid_types check
SwitchAccepts_Unchecked(mt) == TRUE

\* switch_model: if model_type not in valid_types: raise ValueError (model.py:172-174)
SwitchAccepts(mt) == mt \in ValidTypes

SwitchReject(t) ==
    /\ pc[t] = "validate"
    /\ ~SwitchAccepts(reqType[t])
    /\ Raise(t, "ValueError")
    /\ UNCHANGED <<regVars, op, reqType, X, inc, fam, mine, ret, snap, obs>>

SwitchValidate(t) ==
    /\ pc[t] = "validate"
    /\ SwitchAccepts(reqType[t])
    /\ Goto(t, "settype")
    /\ UNCHANGED <<regVars, op, reqType, X, inc, fam, mine, res, ret, snap, obs>>

\* switch_model: self.model_type = model_type; _train_with_synthetic_data()
\* (model.py:176-177, 72-75)
SwitchSetType(t) ==
    /\ pc[t] = "settype"
    /\ model_type' = reqType[t]
    /\ X' = [X EXCEPT ![t] = <<"SYN">>]
    /\ Goto(t, "branch")
    /\ UNCHANGED <<heap, model, version, training_data, disk, now, xgb, instances, nops,
                   op, reqType, inc, fam, mine, res, ret, snap, obs>>

\* train: the if / elif / else reads self.model_type (model.py:80, 91, 100)
TrainBranch(t) ==
    /\ pc[t] = "branch"
    /\ fam' = [fam EXCEPT ![t] = SelectFamily(model_type, xgb)]
    /\ Goto(t, "create")
    /\ UNCHANGED <<regVars, op, reqType, X, inc, mine, res, ret, snap, obs>>

\* train: self.model = <a new, unfitted estimator>; the else branch first sets
\* self.model_type = 'random_forest' (model.py:81-110)
TrainCreate(t) ==
    /\ pc[t] = "create"
    /\ heap' = Append(heap, [family |-> fam[t], fitted |-> FALSE])
    /\ model' = Len(heap) + 1
    /\ mine' = [mine EXCEPT ![t] = Len(heap) + 1]
    /\ model_type' = TypeAfterCreate(model_type, fam[t])
    /\ Goto(t, "fit")
    /\ UNCHANGED <<version, training_data, disk, now, xgb, instances, nops,
                   op, reqType, X, inc, fam, res, ret, snap, obs>>

\* train: self.model.fit(X, y) (model.py:112)
TrainFit(t) ==
    /\ pc[t] = "fit"
    /\ ~FitRaises(X[t])
    /\ heap' = [heap EXCEPT ![model].fitted = TRUE]
    /\ Goto(t, "cv")
    /\ UNCHANGED <<model, version, model_type, training_data, disk, now, xgb, instances,
                   nops, op, reqType, X, inc, fam, mine, res, ret, snap, obs>>

\* train as it would be if a failed fit cleared self.model
TrainFitRaises_ClearsModel(t) ==
    /\ pc[t] = "fit"
    /\ FitRaises(X[t])
    /\ Raise(t, "TrainingFailed")
    /\ model' = 0
    /\ UNCHANGED <<heap, version, model_type, training_data, disk, now, xgb, instances,
                   nops, op, reqType, X, inc, fam, mine, ret, snap, obs>>

TrainFitRaises(t) ==
    /\ pc[t] = "fit"
    /\ FitRaises(X[t])
    /\ Raise(t, "TrainingFailed")
    /\ UNCHANGED <<regVars, op, reqType, X, inc, fam, mine, ret, snap, obs>>

\* train: cv_scores = cross_val_score(self.model, X, y, cv=5) (model.py:115);
\* cross_val_score fits clones and leaves self.model alone
TrainCv(t) ==
    /\ pc[t] = "cv"
    /\ ~CvRaises(X[t])
    /\ Goto(t, "version")
    /\ UNCHANGED <<regVars, op, reqType, X, inc, fam, mine, res, ret, snap, obs>>

TrainCvRaises(t) ==
    /\ pc[t] = "cv"
    /\ CvRaises(X[t])
    /\ Raise(t, "TrainingFailed")
    /\ UNCHANGED <<regVars, op, reqType, X, inc, fam, mine, ret, snap, obs>>

\* train: self.version = f"v{datetime.now().strftime(...)}" (model.py:118)
NewVersion(old, clock) == VersionToken(clock)

TrainVersion(t) ==
    /\ pc[t] = "version"
    /\ version' = NewVersion(version, now)
    /\ instances' = instances \cup {<<model, version', model_type>>}
    /\ Goto(t, "save")
    /\ UNCHANGED <<heap, model, model_type, training_data, disk, now, xgb, nops,
                   op, reqType, X, inc, fam, mine, res, ret, snap, obs>>

\* train: self._save_model() (model.py:121, 146-153)
TrainSave(t) ==
    /\ pc[t] = "save"
    /\ disk' = SaveRecord(heap, model, version, model_type)
    /\ Goto(t, "ret")
    /\ UNCHANGED <<heap, model, version, model_type, training_data, now, xgb, instances,
                   nops, op, reqType, X, inc, fam, mine, res, ret, snap, obs>>

\* train returns its metrics (model.py:129-144); switch_model returns
\* {'model_type': self.model_type, 'version': self.version} (model.py:178); the
\* train and retrain handlers add predictor.get_version() (app.py:423, 562)
TrainReturn(t) ==
    /\ pc[t] = "ret"
    /\ ret' = [ret EXCEPT ![t] = [model_type |-> model_type, version |-> version,
                                  samples |-> Samples(X[t])]]
    /\ res' = [res EXCEPT ![t] = "ok"]
    /\ Goto(t, "done")
    /\ UNCHANGED <<regVars, op, reqType, X, inc, fam, mine, snap, obs>>

\* predictor.predict(...) (app.py:234, model.py:180): the None check and the point
\* estimate self.model.predict(X) (model.py:190-197); an unfitted estimator raises
\* NotFittedError
BeginPredict(t, serial) ==
    /\ t \in Readers
    /\ MayStart(t, serial)
    /\ Start(t, "predict", "point")
    /\ UNCHANGED <<heap, model, version, model_type, training_data, disk, now, xgb,
                   instances, reqType, X, inc, fam, mine, res, ret, obs>>

PredictPoint(t) ==
    /\ pc[t] = "point"
    /\ obs' = [obs EXCEPT ![t] = [model |-> model,
                                  fitted |-> model # 0 /\ heap[model].fitted,
                                  version |-> 0, during |-> TrainingInFlight # {}]]
    /\ IF model = 0
       THEN Raise(t, "ModelNotLoaded")
       ELSE IF heap[model].fitted
            THEN Goto(t, "conf") /\ UNCHANGED res
            ELSE Raise(t, "NotFitted")
    /\ UNCHANGED <<regVars, op, reqType, X, inc, fam, mine, ret, snap>>

\* predict: the confidence from the ensemble members (model.py:200-218)
PredictConf(t) ==
    /\ pc[t] = "conf"
    /\ Goto(t, "getver")
    /\ UNCHANGED <<regVars, op, reqType, X, inc, fam, mine, res, ret, snap, obs>>

\* get_version as it would be if reading the version minted one
PredictVersion_Stamps(t) ==
    /\ pc[t] = "getver"
    /\ version' = now
    /\ obs' = [obs EXCEPT ![t].version = now]
    /\ res' = [res EXCEPT ![t] = "ok"]
    /\ Goto(t, "done")
    /\ UNCHANGED <<heap, model, model_type, training_data, disk, now, xgb, instances,
                   nops, op, reqType, X, inc, fam, mine, ret, snap>>

\* the handler's 'modelVersion': predictor.get_version() (app.py:245)
PredictVersion(t) ==
    /\ pc[t] = "getver"
    /\ obs' = [obs EXCEPT ![t].version = version]
    /\ res' = [res EXCEPT ![t] = "ok"]
    /\ Goto(t, "done")
    /\ UNCHANGED <<regVars, op, reqType, X, inc, fam, mine, ret, snap>>

\* the response is sent and the thread takes the next request
Finish(t) ==
    /\ pc[t] = "done"
    /\ pc' = [pc EXCEPT ![t] = "idle"]
    /\ op' = [op EXCEPT ![t] = "none"]
    /\ reqType' = [reqType EXCEPT ![t] = "none"]
    /\ X' = [X EXCEPT ![t] = <<>>]
    /\ inc' = [inc EXCEPT ![t] = FALSE]
    /\ fam' = [fam EXCEPT ![t] = "none"]
    /\ mine' = [mine EXCEPT ![t] = 0]
    /\ res' = [res EXCEPT ![t] = "none"]
    /\ ret' = [ret EXCEPT ![t] = NoRet]
    /\ snap' = [snap EXCEPT ![t] = NoSnap]
    /\ obs' = [obs EXCEPT ![t] = NoObs]
    /\ UNCHANGED regVars
    /\ RegistryOnly

\* the wall clock advances
Tick ==
    /\ now < MaxClock
    /\ now' = now + 1
    /\ UNCHANGED <<heap, model, version, model_type, training_data, disk, xgb, instances,
                   nops, thrVars>>
    /\ RegistryOnly

\* the process is restarted: a new TaskPredictor is constructed on the same
\* model_path with the default model_type (app.py:161, model.py:23-45)
Restart ==
    /\ nops < MaxOps
    /\ nops' = nops + 1
    /\ LET r == LoadOrCreate(disk, "random_forest", now, xgb) IN
          /\ heap' = <<[family |-> r.family, fitted |-> r.fitted]>>
          /\ model' = 1
          /\ version' = r.version
          /\ model_type' = r.model_type
          /\ training_data' = <<>>
          /\ disk' = r.disk
          /\ instances' = {<<1, r.version, r.model_type>>}
    /\ pc' = [t \in Threads |-> "idle"]
    /\ op' = [t \in Threads |-> "none"]
    /\ reqType' = [t \in Threads |-> "none"]
    /\ X' = [t \in Threads |-> <<>>]
    /\ inc' = [t \in Threads |-> FALSE]
    /\ fam' = [t \in Threads |-> "none"]
    /\ mine' = [t \in Threads |-> 0]
    /\ res' = [t \in Threads |-> "none"]
    /\ ret' = [t \in Threads |-> NoRet]
    /\ snap' = [t \in Threads |-> NoSnap]
    /\ obs' = [t \in Threads |-> NoObs]
    /\ UNCHANGED <<now, xgb>>
    /\ RegistryOnly

\* requests served by concurrent threads
Next ==
    \/ \E t \in Threads : BeginTrain(t, FALSE)
    \/ \E t \in Threads : BeginRetrain(t, FALSE)
    \/ \E t \in Threads : BeginSwitch(t, FALSE)
    \/ \E t \in Threads : BeginPredict(t, FALSE)
    \/ \E t \in Threads : Combine(t)
    \/ \E t \in Threads : SwitchReject(t)
    \/ \E t \in Threads : SwitchValidate(t)
    \/ \E t \in Threads : SwitchSetType(t)
    \/ \E t \in Threads : TrainBranch(t)
    \/ \E t \in Threads : TrainCreate(t)
    \/ \E t \in Threads : TrainFit(t)
    \/ \E t \in Threads : TrainFitRaises(t)
    \/ \E t \in Threads : TrainCv(t)
    \/ \E t \in Threads : TrainCvRaises(t)
    \/ \E t \in Threads : TrainVersion(t)
    \/ \E t \in Threads : TrainSave(t)
    \/ \E t \in Threads : TrainReturn(t)
    \/ \E t \in Threads : PredictPoint(t)
    \/ \E t \in Threads : PredictConf(t)
    \/ \E t \in Threads : PredictVersion(t)
    \/ \E t \in Threads : Finish(t)
    \/ Tick
    \/ Restart

Spec == Init /\ [][Next]_vars

\* one request at a time
NextSeq ==
    \/ \E t \in Threads : BeginTrain(t, TRUE)
    \/ \E t \in Threads : BeginRetrain(t, TRUE)
    \/ \E t \in Threads : BeginSwitch(t, TRUE)
    \/ \E t \in Threads : BeginPredict(t, TRUE)
    \/ \E t \in Threads : Combine(t)
    \/ \E t \in Threads : SwitchReject(t)
    \/ \E t \in Threads : SwitchValidate(t)
    \/ \E t \in Threads : SwitchSetType(t)
    \/ \E t \in Threads : TrainBranch(t)
    \/ \E t \in Threads : TrainCreate(t)
    \/ \E t \in Threads : TrainFit(t)
    \/ \E t \in Threads : TrainFitRaises(t)
    \/ \E t \in Threads : TrainCv(t)
    \/ \E t \in Threads : TrainCvRaises(t)
    \/ \E t \in Threads : TrainVersion(t)
    \/ \E t \in Threads : TrainSave(t)
    \/ \E t \in Threads : TrainReturn(t)
    \/ \E t \in Threads : PredictPoint(t)
    \/ \E t \in Threads : PredictConf(t)
    \/ \E t \in Threads : PredictVersion(t)
    \/ \E t \in Threads : Finish(t)
    \/ Tick
    \/ Restart

SpecSeq == Init /\ [][NextSeq]_vars

-----------------------------------------------------------------------------
(* Part 1.  Claims about the registry *)

\* C1: a predict served while a train, retrain or switch_model is in flight reads
\* a fitted model, and the model and the version it reports belong to one
\* complete instance (the previous one or the new one).
C1_ReaderSeesCompleteInstance ==
    \A r \in Readers :
        (pc[r] = "done" /\ op[r] = "predict" /\ obs[r].during) =>
            /\ obs[r].fitted
            /\ res[r] = "ok" =>
                  \E i \in instances : i[1] = obs[r].model /\ i[2] = obs[r].version

\* C2: at most one training operation is in flight at a time, and from the
\* statement that fits to the one that returns, self.model is the estimator the
\* operation itself created.
C2_OneTrainingInFlight ==
    /\ Cardinality(TrainingInFlight) <= 1
    /\ \A t \in Writers :
          pc[t] \in {"fit", "cv", "version", "save", "ret"} => model = mine[t]

\* C3: after a train, retrain or switch_model that failed in fit or in
\* cross-validation, the active model, its version and its model_type are those
\* from before the call, and the active model is still a fitted one.
C3_FailureKeepsInstance ==
    \A t \in Writers :
        (pc[t] = "done" /\ res[t] = "TrainingFailed") =>
            /\ model = snap[t].model
            /\ version = snap[t].version
            /\ model_type = snap[t].model_type
            /\ heap[snap[t].model].fitted => heap[model].fitted

\* C4: switch_model with a model type outside the closed set ends with
\* ValueError and the registry (model, version, model_type, accumulated data)
\* is what it was when the call started.
C4_InvalidSwitchRejected ==
    \A t \in Writers :
        (pc[t] = "done" /\ op[t] = "switch_model" /\ reqType[t] \notin ValidTypes) =>
            /\ res[t] = "ValueError"
            /\ Registry = snap[t]

\* C4 witness: an invalid switch_model has been rejected in a registry that an
\* earlier retrain had already changed.
C4_Witness ==
    \E t \in Writers :
        /\ pc[t] = "done" /\ op[t] = "switch_model" /\ reqType[t] = "invalid_model"
        /\ res[t] = "ValueError"
        /\ training_data # <<>>

\* C5: every successful training operation ends with a version strictly greater
\* than the version that was active when it started, and no two instances
\* minted so far share a version.
C5_VersionStrictlyGreater ==
    /\ \A t \in Writers :
          (pc[t] = "done" /\ res[t] = "ok") => version > snap[t].version
    /\ \A i, j \in instances : i[2] = j[2] => i[1] = j[1]

\* C6: with xgboost not installed, a switch to 'xgboost' does not succeed: it
\* fails with TrainingFailed instead of installing a model of another family.
C6_MissingDependencyFails ==
    \A t \in Writers :
        (pc[t] = "done" /\ op[t] = "switch_model" /\ reqType[t] = "xgboost" /\ ~xgb) =>
            res[t] = "TrainingFailed"

\* C7: when a training operation has returned success, the record on disk holds
\* the active model, version and model_type, and a TaskPredictor constructed on
\* that path (with any model_type argument) loads them instead of retraining.
C7_SuccessIsDurable ==
    \A t \in Writers :
        (pc[t] = "done" /\ res[t] = "ok") =>
            /\ disk.present
            /\ disk.family = heap[model].family
            /\ disk.fitted = heap[model].fitted
            /\ disk.version = version
            /\ disk.model_type = model_type
            /\ \A ct \in AllTypes :
                  LET r == LoadOrCreate(disk, ct, now, xgb) IN
                  /\ r.loaded
                  /\ r.version = version
                  /\ r.model_type = model_type
                  /\ r.family = heap[model].family

\* C7 witness: a switch to gradient_boosting has returned success with a version
\* newer than the one it started from.
C7_Witness ==
    \E t \in Writers :
        /\ pc[t] = "done" /\ res[t] = "ok" /\ op[t] = "switch_model"
        /\ model_type = "gradient_boosting"
        /\ snap[t].model_type = "random_forest"
        /\ version > snap[t].version

\* C12: a retrain call trains on the accumulated examples followed by the new
\* ones when incremental is set and accumulated examples exist, and on the new
\* ones alone otherwise; what it trains on is the accumulated dataset from then
\* on, and samples_trained is its size.  (Each call passes one batch, which is
\* the last one of the set trained on.)
C12_RetrainAccumulates ==
    \A t \in Writers :
        (pc[t] = "done" /\ op[t] = "retrain") =>
            LET new == <<X[t][Len(X[t])]>>
                old == snap[t].training_data
            IN /\ X[t] = (IF inc[t] /\ old # <<>> THEN old \o new ELSE new)
               /\ training_data = X[t]
               /\ res[t] = "ok" => ret[t].samples = Samples(training_data)

\* C12 witness: an incremental retrain has succeeded on top of an identical
\* earlier batch, which was neither dropped nor merged.
C12_Witness ==
    \E t \in Writers :
        /\ pc[t] = "done" /\ op[t] = "retrain" /\ res[t] = "ok" /\ inc[t]
        /\ snap[t].training_data = <<"A">>
        /\ training_data = <<"A", "A">>
        /\ ret[t].samples = 2 * BatchSize("A")

\* C16: a switch_model call with a type of the closed set that succeeds leaves
\* a newly created, fitted model of the requested family as the active one and
\* returns the requested type with the version that is then active.
C16_SwitchInstallsRequested ==
    \A t \in Writers :
        (pc[t] = "done" /\ op[t] = "switch_model" /\ res[t] = "ok") =>
            /\ model # snap[t].model
            /\ heap[model].fitted
            /\ heap[model].family = reqType[t]
            /\ model_type = reqType[t]
            /\ ret[t].model_type = reqType[t]
            /\ ret[t].version = version

\* is_loaded(): self.model is not None (model.py:256-258)
is_loaded == model # 0

\* C13: once the TaskPredictor is constructed, is_loaded() is true after every
\* sequence of train, retrain, switch_model and predict calls, whether they
\* succeed or fail; and a predict call ends with 'Model not loaded' exactly
\* when it found self.model to be None, which therefore never happens.
C13_StaysLoaded ==
    /\ is_loaded
    /\ \A t \in Readers :
          pc[t] = "done" => (res[t] = "ModelNotLoaded" <=> obs[t].model = 0)
    /\ \A t \in Readers : res[t] # "ModelNotLoaded"

\* C13 witness: a predict call has been answered after a training call that
\* failed in fit: it raised, but not for a missing model, and is_loaded() holds.
C13_Witness ==
    \E t \in Readers :
        /\ pc[t] = "done" /\ res[t] = "NotFitted"
        /\ ~heap[model].fitted
        /\ is_loaded

-----------------------------------------------------------------------------
(* Part 2.  The confidence of predict and predict_batch *)

\* the registry part at rest, for the parts that do not run it
RegistryOff ==
    /\ heap = <<>> /\ model = 0 /\ version = 0 /\ model_type = "none"
    /\ training_data = <<>> /\ disk = NoRecord /\ now = 0 /\ xgb = FALSE
    /\ instances = {} /\ nops = 0
    /\ ThreadsIdle

\* How the fitted model answers the member-prediction code:
\*   "trees"      estimators_ is a list of trees (RandomForest)
\*   "stages"     estimators_ is a 2D array of stages (GradientBoosting)
\*   "no_members" no estimators_ attribute (XGBoost)
\*   "raises"     a member prediction raises inside the try block
ConfPaths == {"trees", "stages", "no_members", "raises"}

\* A float that is not a number, among confidences in hundredths.
NaN == -1

\* np.var of the member predictions (model.py:210, 247), in tenths.  The
\* member predictions are the leaf values of trees fitted to whatever labels
\* train was given: INF_VAR stands for +inf (the squared deviations overflow)
\* and NAN_VAR for nan (a member prediction is itself infinite, its leaf
\* having summed labels near the largest float, so that the deviation from
\* the mean is inf - inf).
INF_VAR == -1
NAN_VAR == -2
Variances == (0..MaxVar) \cup {INF_VAR, NAN_VAR}

\* what self.model.predict returns for one input, in thousandths; INF_POINT
\* stands for +inf, the average of members of which one is infinite
INF_POINT == 1000000000
PointValues == {-500, 2345, INF_POINT}

\* Python's min(a, b) and max(a, b): the first argument unless the second
\* compares strictly smaller (larger); every comparison with nan is False
Min2(a, b) == IF a # NaN /\ b # NaN /\ b < a THEN b ELSE a
Max2(a, b) == IF a # NaN /\ b # NaN /\ b > a THEN b ELSE a

\* 1.0 / (1.0 + variance), variance in tenths, result in hundredths
\* (model.py:211, 248); 1/(1+inf) is 0.0 and 1/(1+nan) is nan
Reciprocal(v) ==
    IF v = NAN_VAR THEN NaN ELSE IF v = INF_VAR THEN 0 ELSE 1000 \div (10 + v)

\* confidence = min(0.99, max(0.5, confidence)) (model.py:218)
ClampSingle(c) == Min2(CONF_MAX, Max2(CONF_MIN, c))

\* np.clip(confidences, 0.5, 0.99), element by element (model.py:252):
\* np.minimum / np.maximum propagate nan
ClipBatch(c) ==
    IF c = NaN THEN NaN
    ELSE IF c < CONF_MIN THEN CONF_MIN ELSE IF c > CONF_MAX THEN CONF_MAX ELSE c

\* predict: the try block and the clamp (model.py:199-218)
ConfidenceSingle(path, v) ==
    LET raw == IF path = "raises" THEN CONF_DEFAULT
               ELSE IF path \in {"trees", "stages"} THEN Reciprocal(v)
               ELSE CONF_DEFAULT
    IN ClampSingle(raw)

\* predict_batch: the default, the try block and the clip (model.py:238-252)
ConfidenceBatch(path, v) ==
    LET default == CONF_DEFAULT
        raw == IF path \in {"trees", "stages"} THEN Reciprocal(v) ELSE default
    IN ClipBatch(raw)

InitConf ==
    /\ RegistryOff
    /\ BatchIdle
    /\ ExtIdle
    /\ cPath \in ConfPaths
    /\ \E n \in 1..MaxConfBatch :
          /\ cVar \in [1..n -> Variances]
          /\ cPred \in [1..n -> PointValues]
          /\ \A i \in 1..n : (cVar[i] = NAN_VAR) <=> (cPred[i] = INF_POINT)
    /\ cSingle = 0
    /\ cBatch = <<>>
    /\ cPointSingle = 0
    /\ cPointBatch = <<>>
    /\ cDone = {}

\* predictor.predict(...) on the first input (model.py:180-220)
ConfPredict ==
    /\ "predict" \notin cDone
    /\ cPointSingle' = cPred[1]
    /\ cSingle' = ConfidenceSingle(cPath, cVar[1])
    /\ cDone' = cDone \cup {"predict"}
    /\ UNCHANGED <<cPath, cVar, cPred, cBatch, cPointBatch, regVars, thrVars, batchVars,
                   extVars>>

\* predictor.predict_batch(...) on all inputs (model.py:222-254)
ConfPredictBatch ==
    /\ "predict_batch" \notin cDone
    /\ cPointBatch' = cPred
    /\ cBatch' = [i \in 1..Len(cVar) |-> ConfidenceBatch(cPath, cVar[i])]
    /\ cDone' = cDone \cup {"predict_batch"}
    /\ UNCHANGED <<cPath, cVar, cPred, cSingle, cPointSingle, regVars, thrVars, batchVars,
                   extVars>>

NextConf ==
    \/ ConfPredict
    \/ ConfPredictBatch

SpecConf == InitConf /\ [][NextConf]_vars

InRange(c) == c # NaN /\ CONF_MIN <= c /\ c <= CONF_MAX

\* C8: every confidence returned by predict and by predict_batch lies in
\* [0.5, 0.99], for every family, every variance and on the fallback paths.
C8_ConfidenceInRange ==
    /\ "predict" \in cDone => InRange(cSingle)
    /\ "predict_batch" \in cDone => \A i \in 1..Len(cBatch) : InRange(cBatch[i])

\* C11: for one input, predict_batch([f])[0] returns the point estimate and
\* the confidence that predict(f) returns, on every path of the confidence
\* computation.
C11_BatchMatchesSingle ==
    (cDone = {"predict", "predict_batch"} /\ Len(cVar) = 1) =>
        /\ cPointBatch[1] = cPointSingle
        /\ cBatch[1] = cSingle

-----------------------------------------------------------------------------
(* Part 3.  POST /api/predict/batch (app.py:252-370) *)

\* One entry of data['tasks'].  kind "num": the four fields are present and
\* numeric, given in tenths (59 is 5.9); "missing": a required field is absent;
\* "text": a field int() or float() cannot parse.
Item(k, s, t, p, l) == [kind |-> k, size |-> s, type |-> t, prio |-> p, load |-> l]

BatchItems ==
    { Item("num", 10, 10, 30, 250),      \* valid
      Item("num", 30, 20, 50, 1000),     \* valid, at the upper limits
      Item("num", 10, 10, 59, 250),      \* priority 5.9
      Item("num", 40, 10, 30, 250),      \* taskSize 4
      Item("num", 10, 0, 30, 250),       \* taskType 0
      Item("num", 10, 10, 30, 1001),     \* resourceLoad 100.1
      Item("missing", 0, 0, 0, 0),
      Item("text", 0, 0, 0, 0) }

\* int(x) of a number: truncation toward zero (app.py:314-316)
IntParse(x) == IF x >= 0 THEN x \div 10 ELSE -((-x) \div 10)

\* the features handed to the model: [task_size, task_type, priority, resource_load]
\* (app.py:314-317, 332); resource_load stays in tenths
Features(item) ==
    <<IntParse(item.size), IntParse(item.type), IntParse(item.prio), item.load>>

\* the per-item checks of the validation loop, in the code's order
\* (app.py:307-335); "ok" when the item goes to valid_tasks
ItemError(item) ==
    IF item.kind = "missing" THEN "Missing fields"
    ELSE IF item.kind = "text" THEN "exception"
    ELSE IF IntParse(item.size) \notin {1, 2, 3} THEN "taskSize must be 1, 2, or 3"
    ELSE IF IntParse(item.type) \notin {1, 2, 3} THEN "taskType must be 1, 2, or 3"
    ELSE IF ~(1 <= IntParse(item.prio) /\ IntParse(item.prio) <= 5)
         THEN "priority must be between 1 and 5"
    ELSE IF ~(0 <= item.load /\ item.load <= 1000)
         THEN "resourceLoad must be between 0 and 100"
    ELSE "ok"

\* the fitted models tried: the point estimate of self.model.predict, in
\* thousandths of a second (model.py:236)
FittedModels == {"flat", "steep", "signed"}
PointEstimate(m, f) ==
    CASE m = "flat" -> 1004
      [] m = "steep" -> 1006 + 1499 * (f[1] - 1)
      [] m = "signed" -> IF f[3] = 5 THEN -250 ELSE 1004

\* round(x, n) on a ratio a / b with b > 0: the nearest integer, ties to even
RoundHalfEven(a, b) ==
    LET q == a \div b
        r == a % b
    IN IF 2 * r < b THEN q
       ELSE IF 2 * r > b THEN q + 1
       ELSE IF q % 2 = 0 THEN q ELSE q + 1

\* 'predictedTime': round(predicted_time, 2), thousandths to hundredths (app.py:344)
Round2(t) == RoundHalfEven(t, 10)

\* the handler as it would be with the sum in place of the mean
AvgPredictedTime_Sum(total, n) == IF n = 0 THEN 0 ELSE RoundHalfEven(total, 10)

\* 'avgPredictedTime': round(total_time / len(predictions), 2) if predictions
\* else 0 (app.py:358)
AvgPredictedTime(total, n) == IF n = 0 THEN 0 ELSE RoundHalfEven(total, 10 * n)

RECURSIVE SumTimes(_, _)
SumTimes(m, valid) ==
    IF valid = <<>> THEN 0
    ELSE PointEstimate(m, Head(valid).features) + SumTimes(m, Tail(valid))

InitBatch ==
    /\ RegistryOff
    /\ ConfIdle
    /\ ExtIdle
    /\ \E n \in 0..MaxItems : bTasks \in [1..n -> BatchItems]
    /\ predictFn \in FittedModels \cup {"unfitted"}
    /\ bIdx = 0
    /\ bErrors = <<>>
    /\ bValid = <<>>
    /\ bPredictions = <<>>
    /\ bTotal = 0
    /\ bResponse = [status |-> 0]
    /\ bPc = "shape"

BatchOnly == UNCHANGED <<regVars, thrVars, confVars, extVars>>

\* empty or oversized tasks array: 400 (app.py:293-297)
BatchRejectShape ==
    /\ bPc = "shape"
    /\ Len(bTasks) = 0 \/ Len(bTasks) > BATCH_LIMIT
    /\ bResponse' = [status |-> 400]
    /\ bPc' = "sent"
    /\ UNCHANGED <<bTasks, bIdx, bErrors, bValid, bPredictions, bTotal, predictFn>>
    /\ BatchOnly

BatchAcceptShape ==
    /\ bPc = "shape"
    /\ ~(Len(bTasks) = 0 \/ Len(bTasks) > BATCH_LIMIT)
    /\ bPc' = "validate"
    /\ UNCHANGED <<bTasks, bIdx, bErrors, bValid, bPredictions, bTotal, bResponse,
                   predictFn>>
    /\ BatchOnly

\* one pass of "for idx, task in enumerate(data['tasks'])" (app.py:306-335)
BatchValidateItem ==
    /\ bPc = "validate"
    /\ bIdx < Len(bTasks)
    /\ LET item == bTasks[bIdx + 1]
           err == ItemError(item)
       IN IF err = "ok"
          THEN /\ bValid' = Append(bValid, [index |-> bIdx, features |-> Features(item)])
               /\ UNCHANGED bErrors
          ELSE /\ bErrors' = Append(bErrors, [index |-> bIdx, error |-> err])
               /\ UNCHANGED bValid
    /\ bIdx' = bIdx + 1
    /\ UNCHANGED <<bTasks, bPredictions, bTotal, bResponse, bPc, predictFn>>
    /\ BatchOnly

\* the loop is over; predictor.predict_batch(features) on the valid items and
\* the accumulation of predictions and total_time (app.py:338-350)
BatchScore ==
    /\ bPc = "validate"
    /\ bIdx = Len(bTasks)
    /\ bValid = <<>> \/ predictFn # "unfitted"
    /\ bPredictions' = [i \in 1..Len(bValid) |->
                           Round2(PointEstimate(predictFn, bValid[i].features))]
    /\ bTotal' = SumTimes(predictFn, bValid)
    /\ bPc' = "respond"
    /\ UNCHANGED <<bTasks, bIdx, bErrors, bValid, bResponse, predictFn>>
    /\ BatchOnly

\* predict_batch raises on an unfitted estimator: the outer except answers 500
\* (app.py:340, 368-370)
BatchScoreRaises ==
    /\ bPc = "validate"
    /\ bIdx = Len(bTasks)
    /\ bValid # <<>> /\ predictFn = "unfitted"
    /\ bResponse' = [status |-> 500]
    /\ bPc' = "sent"
    /\ UNCHANGED <<bTasks, bIdx, bErrors, bValid, bPredictions, bTotal, predictFn>>
    /\ BatchOnly

\* the response (app.py:355-366)
BatchRespond ==
    /\ bPc = "respond"
    /\ bResponse' = [status |-> 200,
                     predictions |-> bPredictions,
                     totalTasks |-> Len(bPredictions),
                     avgPredictedTime |-> AvgPredictedTime(bTotal, Len(bPredictions)),
                     errors |-> bErrors,
                     errorCount |-> Len(bErrors)]
    /\ bPc' = "sent"
    /\ UNCHANGED <<bTasks, bIdx, bErrors, bValid, bPredictions, bTotal, predictFn>>
    /\ BatchOnly

NextBatch ==
    \/ BatchRejectShape
    \/ BatchAcceptShape
    \/ BatchValidateItem
    \/ BatchScore
    \/ BatchScoreRaises
    \/ BatchRespond

SpecBatch == InitBatch /\ [][NextBatch]_vars

\* a Task Feature Vector of the data model: taskSize and taskType in {1,2,3},
\* priority an integer in 1..5, resourceLoad in [0,100] (values in tenths)
Malformed(item) ==
    \/ item.kind # "num"
    \/ item.size \notin {10, 20, 30}
    \/ item.type \notin {10, 20, 30}
    \/ item.prio \notin {10, 20, 30, 40, 50}
    \/ ~(0 <= item.load /\ item.load <= 1000)

ErrorIndexes(resp) == {resp.errors[k].index : k \in 1..Len(resp.errors)}

\* C9: in the response to a batch of 1 to 1000 items, the items reported as
\* errors (by input index) are exactly the malformed ones, every other item is
\* scored, predictions plus errors count the items, and no index is reported
\* twice.
C9_MalformedItemsAreErrors ==
    (bPc = "sent" /\ bResponse.status = 200) =>
        /\ \A i \in 1..Len(bTasks) :
              Malformed(bTasks[i]) <=> (i - 1) \in ErrorIndexes(bResponse)
        /\ Len(bResponse.predictions) + Len(bResponse.errors) = Len(bTasks)
        /\ Cardinality(ErrorIndexes(bResponse)) = Len(bResponse.errors)

RECURSIVE SumScored(_)
SumScored(idxs) ==
    IF idxs = {} THEN 0
    ELSE LET i == CHOOSE j \in idxs : TRUE
         IN PointEstimate(predictFn, Features(bTasks[i + 1])) + SumScored(idxs \ {i})

Abs(x) == IF x < 0 THEN -x ELSE x

\* C10: totalTasks is the number of items not rejected, and avgPredictedTime is
\* the mean of the model's predicted times over exactly those items, rounded to
\* 2 decimals (0 when none was scored).
C10_AggregatesOverScoredItems ==
    (bPc = "sent" /\ bResponse.status = 200) =>
        LET scored == {i \in 0..(Len(bTasks) - 1) : i \notin ErrorIndexes(bResponse)}
            n == Cardinality(scored)
            sum == SumScored(scored)
        IN /\ bResponse.totalTasks = n
           /\ n = 0 => bResponse.avgPredictedTime = 0
           /\ n > 0 => 2 * Abs(10 * n * bResponse.avgPredictedTime - sum) <= 10 * n

\* C10 witness: a response over two scored items with different predicted times
\* and one rejected item.
C10_Witness ==
    /\ bPc = "sent" /\ bResponse.status = 200
    /\ bResponse.totalTasks = 2
    /\ bResponse.errorCount = 1
    /\ bResponse.predictions[1] # bResponse.predictions[2]
    /\ bResponse.avgPredictedTime > 0

-----------------------------------------------------------------------------
(* Part 4.  The request handlers of app.py: what they hand to the model *)

\* One example of a request body: the four features and actualTime, all
\* numeric, in tenths (59 is 5.9, -50 is -5.0)
Example(s, t, p, l, a) == [size |-> s, type |-> t, prio |-> p, load |-> l, actualTime |-> a]

Examples ==
    { Example(s, 20, p, l, a) : s \in {10, 70}, p \in {30, 59}, l \in {250, 1500},
                                a \in {-50, 20} }

\* the features as the request gives them (app.py:402-407, 543-548, 585, 630)
RawFeatures(ex) == <<ex.size, ex.type, ex.prio, ex.load>>

\* int(data['taskSize']), int(data['taskType']), int(data['priority']),
\* float(data['resourceLoad']) (app.py:205-208, 314-317), in tenths
ParsedFeatures(ex) ==
    <<10 * IntParse(ex.size), 10 * IntParse(ex.type), 10 * IntParse(ex.prio), ex.load>>

\* the range checks of the predict handler on the parsed values (app.py:211-218);
\* predict_batch makes the same checks per item (app.py:319-330)
RangeError(f) ==
    IF f[1] \notin {10, 20, 30} THEN "taskSize must be 1, 2, or 3"
    ELSE IF f[2] \notin {10, 20, 30} THEN "taskType must be 1, 2, or 3"
    ELSE IF ~(10 <= f[3] /\ f[3] <= 50) THEN "priority must be between 1 and 5"
    ELSE IF ~(0 <= f[4] /\ f[4] <= 1000) THEN "resourceLoad must be between 0 and 100"
    ELSE "ok"

\* the labels of _generate_synthetic_data: np.maximum(execution_time, 0.5)
\* (model.py:67)
SyntheticLabels == {5, 60}

SetMin(S) == CHOOSE x \in S : \A y \in S : x <= y
SetMax(S) == CHOOSE x \in S : \A y \in S : x >= y

\* self.model.predict(X)[0] (model.py:197) of a tree ensemble fitted on labels
\* L: an average of leaf values, each an average of labels, so a value between
\* the smallest and the largest label
PredictFrom(L) == L \cup {(SetMin(L) + SetMax(L)) \div 2}

Respond(r, st, p) == [route |-> r, status |-> st, predictedTime |-> p]

InitIngress ==
    /\ RegistryOff
    /\ ConfIdle
    /\ BatchIdle
    /\ CalIdle
    /\ TuneIdle
    /\ LateIdle
    /\ fitLabels = SyntheticLabels
    /\ storedLabels = {}
    /\ seen = {}
    /\ lastResponse = Respond("none", 0, 0)
    /\ shapAvail \in BOOLEAN
    /\ calls = 0

IngressOnly ==
    /\ calls < MaxCalls
    /\ calls' = calls + 1
    /\ UNCHANGED <<regVars, thrVars, confVars, batchVars, calVars, tuneVars, lateVars,
                   shapAvail>>

\* POST /api/predict (app.py:174-250)
HandlePredict ==
    /\ IngressOnly
    /\ \E ex \in Examples :
          IF RangeError(ParsedFeatures(ex)) # "ok"
          THEN /\ lastResponse' = Respond("predict", 400, 0)
               /\ UNCHANGED seen
          ELSE /\ seen' = seen \cup {ParsedFeatures(ex)}
               /\ \E p \in PredictFrom(fitLabels) :
                     lastResponse' = Respond("predict", 200, p)
    /\ UNCHANGED <<fitLabels, storedLabels>>

\* POST /api/predict/batch with one item (app.py:252-370)
HandlePredictBatch ==
    /\ IngressOnly
    /\ \E ex \in Examples :
          IF RangeError(ParsedFeatures(ex)) # "ok"
          THEN /\ lastResponse' = Respond("predict_batch", 200, 0)
               /\ UNCHANGED seen
          ELSE /\ seen' = seen \cup {ParsedFeatures(ex)}
               /\ \E p \in PredictFrom(fitLabels) :
                     lastResponse' = Respond("predict_batch", 200, p)
    /\ UNCHANGED <<fitLabels, storedLabels>>

\* POST /api/train with ten or more copies of one example (app.py:372-428):
\* X and y are built from the items as given
HandleTrain ==
    /\ IngressOnly
    /\ \E ex \in Examples :
          /\ seen' = seen \cup {RawFeatures(ex)}
          /\ fitLabels' = {ex.actualTime}
    /\ lastResponse' = Respond("train", 200, 0)
    /\ UNCHANGED storedLabels

\* POST /api/retrain with five or more copies of one example (app.py:528-568,
\* model.py:156-168)
HandleRetrain ==
    /\ IngressOnly
    /\ \E ex \in Examples, incremental \in BOOLEAN :
          LET labels == IF incremental /\ storedLabels # {}
                        THEN storedLabels \cup {ex.actualTime}
                        ELSE {ex.actualTime}
          IN /\ seen' = seen \cup {RawFeatures(ex)}
             /\ storedLabels' = labels
             /\ fitLabels' = labels
    /\ lastResponse' = Respond("retrain", 200, 0)

\* POST /api/predict/interval (app.py:616-653): the features go to
\* cp.predict_interval and to predictor.predict as given
HandleInterval ==
    /\ IngressOnly
    /\ \E ex \in Examples :
          /\ seen' = seen \cup {RawFeatures(ex)}
          /\ \E p \in PredictFrom(fitLabels) :
                lastResponse' = Respond("interval", 200, p)
    /\ UNCHANGED <<fitLabels, storedLabels>>

\* POST /api/explain (app.py:584-613): 501 without shap, else the features go
\* to predictor.predict as given
HandleExplain ==
    /\ IngressOnly
    /\ \E ex \in Examples :
          IF ~shapAvail
          THEN /\ lastResponse' = Respond("explain", 501, 0)
               /\ UNCHANGED seen
          ELSE /\ seen' = seen \cup {RawFeatures(ex)}
               /\ \E p \in PredictFrom(fitLabels) :
                     lastResponse' = Respond("explain", 200, p)
    /\ UNCHANGED <<fitLabels, storedLabels>>

NextIngress ==
    \/ HandlePredict
    \/ HandlePredictBatch
    \/ HandleTrain
    \/ HandleRetrain
    \/ HandleInterval
    \/ HandleExplain

SpecIngress == InitIngress /\ [][NextIngress]_vars

\* a Task Feature Vector of the data model, in tenths
ValidVector(f) ==
    /\ f[1] \in {10, 20, 30}
    /\ f[2] \in {10, 20, 30}
    /\ f[3] \in {10, 20, 30, 40, 50}
    /\ 0 <= f[4] /\ f[4] <= 1000

\* C14: every feature vector handed to the model, by whichever handler, is a
\* valid Task Feature Vector.
C14_ValidatedAtEveryIngress == \A f \in seen : ValidVector(f)

\* C15: the predicted time in a successful /api/predict response is strictly
\* positive, whatever the train and retrain requests accepted before it.
C15_PredictedTimePositive ==
    (lastResponse.route = "predict" /\ lastResponse.status = 200) =>
        lastResponse.predictedTime > 0

-----------------------------------------------------------------------------
(* Part 5.  ConformalPredictor (research.py:178-218) *)

\* One calibration example as <<y_cal[i], self.model.predict(X_cal)[i]>>, in
\* tenths; the absolute residuals of the three pairs are 1.0, 0.0, 3.0
CalPairs == {<<0, 10>>, <<10, 10>>, <<50, 20>>}
CalSets == UNION {[1..n -> CalPairs] : n \in 0..MaxCal}

\* alpha, in hundredths
Alphas == {10, 50, 90}

\* self.model.predict(X) for the inputs of predict_interval, in tenths
QueryPoints == UNION {[1..n -> {0, 25}] : n \in 1..MaxQuery}

\* residuals computed without np.abs
Residual_Signed(pair) == pair[1] - pair[2]

\* residuals = np.abs(y_cal - preds) (research.py:201)
Residual(pair) == IF pair[1] >= pair[2] THEN pair[1] - pair[2] ELSE pair[2] - pair[1]

Residuals(cs) == [i \in 1..Len(cs) |-> Residual(cs[i])]

\* the k-th smallest element of a non-empty sequence (np.quantile sorts)
KthSmallest(r, k) ==
    CHOOSE v \in {r[i] : i \in 1..Len(r)} :
        /\ Cardinality({i \in 1..Len(r) : r[i] < v}) < k
        /\ k <= Cardinality({i \in 1..Len(r) : r[i] <= v})

\* np.ceil(a / b) for a >= 0, b > 0
Ceil(a, b) == (a + b - 1) \div b

\* np.ceil((n + 1) * (1 - self.alpha)) (research.py:204)
LevelNum(n, a) == Ceil((n + 1) * (100 - a), 100)

\* the level as it would be with the plain (1 - alpha) quantile
QLevel_Naive(n, a) == [num |-> Ceil(n * (100 - a), 100), den |-> n]

\* q_level = min(1.0, np.ceil((n + 1) * (1 - self.alpha)) / n) (research.py:204)
QLevel(n, a) ==
    [num |-> IF LevelNum(n, a) < n THEN LevelNum(n, a) ELSE n, den |-> n]

\* float(np.quantile(residuals, q_level)) (research.py:205) for a level
\* q.num / n in [0, 1]: linear interpolation at position q * (n - 1) of the
\* sorted residuals; the result is num / n
Quantile(r, q) ==
    LET n == Len(r)
        lo == (q.num * (n - 1)) \div n
        m == (q.num * (n - 1)) % n
        below == KthSmallest(r, lo + 1)
    IN [set |-> TRUE,
        num |-> IF m = 0 THEN n * below
                ELSE n * below + m * (KthSmallest(r, lo + 2) - below),
        den |-> n]

\* predict_interval and get_width as they would be without the None check
NotCalibrated_Never(q) == FALSE

\* if self._quantile is None: raise ValueError("Call calibrate() first")
\* (research.py:209-210, 216-217)
NotCalibrated(q) == q = None

InitCal ==
    /\ RegistryOff
    /\ ConfIdle
    /\ BatchIdle
    /\ IngIdle
    /\ TuneIdle
    /\ LateIdle
    /\ quantile = None
    /\ alpha \in Alphas
    /\ qLevel = [num |-> 0, den |-> 1]
    /\ calSet = <<>>
    /\ calLast = NoCall
    /\ calibrations = 0
    /\ calCalls = 0

CalOnly ==
    /\ calCalls < MaxCalCalls
    /\ calCalls' = calCalls + 1
    /\ UNCHANGED <<regVars, thrVars, confVars, batchVars, ingVars, tuneVars, lateVars,
                   alpha>>

\* cp.calibrate(X_cal, y_cal) (research.py:198-205); self.model.predict raises
\* on an empty X_cal, before anything is assigned
Calibrate ==
    /\ CalOnly
    /\ \E cs \in CalSets :
          IF cs = <<>>
          THEN /\ calLast' = [NoCall EXCEPT !.op = "calibrate", !.outcome = "ValueError"]
               /\ UNCHANGED <<quantile, qLevel, calSet, calibrations>>
          ELSE /\ qLevel' = QLevel(Len(cs), alpha)
               /\ quantile' = Quantile(Residuals(cs), QLevel(Len(cs), alpha))
               /\ calSet' = cs
               /\ calibrations' = calibrations + 1
               /\ calLast' = [NoCall EXCEPT !.op = "calibrate", !.outcome = "ok"]

\* cp.predict_interval(X) (research.py:207-212)
PredictInterval ==
    /\ CalOnly
    /\ \E pts \in QueryPoints :
          IF NotCalibrated(quantile)
          THEN calLast' = [NoCall EXCEPT !.op = "predict_interval",
                                         !.outcome = "NotCalibrated",
                                         !.points = pts]
          ELSE calLast' = [NoCall EXCEPT
                             !.op = "predict_interval", !.outcome = "ok",
                             !.points = pts,
                             !.intervals =
                                 [i \in 1..Len(pts) |->
                                     [lower |-> pts[i] * quantile.den - quantile.num,
                                      upper |-> pts[i] * quantile.den + quantile.num,
                                      den |-> quantile.den]]]
    /\ UNCHANGED <<quantile, qLevel, calSet, calibrations>>

\* cp.get_width() (research.py:214-218)
GetWidth ==
    /\ CalOnly
    /\ IF NotCalibrated(quantile)
       THEN calLast' = [NoCall EXCEPT !.op = "get_width", !.outcome = "NotCalibrated"]
       ELSE calLast' = [NoCall EXCEPT !.op = "get_width", !.outcome = "ok",
                                      !.width = quantile]
    /\ UNCHANGED <<quantile, qLevel, calSet, calibrations>>

NextCal ==
    \/ Calibrate
    \/ PredictInterval
    \/ GetWidth

SpecCal == InitCal /\ [][NextCal]_vars

\* C17: as long as no calibrate call has returned, predict_interval and
\* get_width end with 'Call calibrate() first' and the calibrator is as it was;
\* once a calibrate call has returned they never end that way.
C17_NotCalibratedOnlyBefore ==
    /\ calibrations = 0 => quantile = None
    /\ calLast.op \in {"predict_interval", "get_width"} =>
          (calLast.outcome = "NotCalibrated" <=> calibrations = 0)
    /\ calLast.outcome = "NotCalibrated" => (quantile = None /\ calibrations = 0)

\* C17 witness: get_width has answered after one calibrate call, and two other
\* calls (among them possibly a failed one) were made on the same calibrator.
C17_Witness ==
    /\ calLast.op = "get_width" /\ calLast.outcome = "ok"
    /\ calibrations = 1
    /\ calCalls = 3

\* C18: after a calibrate call on a non-empty set the half-width is
\* non-negative, and predict_interval returns (point - halfWidth,
\* point + halfWidth) for each input: lower <= point <= upper and
\* upper - lower is twice the half-width.
C18_IntervalAroundPoint ==
    /\ calibrations > 0 => (quantile.set /\ quantile.num >= 0 /\ quantile.den > 0)
    /\ (calLast.op = "predict_interval" /\ calLast.outcome = "ok") =>
          /\ Len(calLast.intervals) = Len(calLast.points)
          /\ \A i \in 1..Len(calLast.points) :
                LET iv == calLast.intervals[i]
                    point == calLast.points[i] * iv.den
                IN /\ iv.den = quantile.den
                   /\ iv.lower = point - quantile.num
                   /\ iv.upper = point + quantile.num
                   /\ iv.lower <= point /\ point <= iv.upper
                   /\ iv.upper - iv.lower = 2 * quantile.num

\* C18 witness: intervals of positive width returned for two inputs.
C18_Witness ==
    /\ calLast.op = "predict_interval" /\ calLast.outcome = "ok"
    /\ Len(calLast.intervals) = 2
    /\ quantile.num > 0
    /\ calLast.intervals[1].lower < calLast.intervals[1].upper

-----------------------------------------------------------------------------
(* Part 6.  POST /api/tune (app.py:656-688, research.py:110-124) *)

\* The request body: nTrials absent ("missing"), a number in tenths ("num":
\* 2507 is 250.7) or a value int() cannot convert ("text"); and modelType
TuneRequests ==
    { [kind |-> k, nTrials |-> 0, modelType |-> mt] :
          k \in {"missing", "text"}, mt \in AllTypes }
    \cup
    { [kind |-> "num", nTrials |-> v, modelType |-> mt] :
          v \in {-10, 0, 30, 1990, 2000, 2010, 2507, 10000}, mt \in AllTypes }

\* the handler as it would be without the cap
CapTrials_Uncapped(n) == n

\* min(int(...), 200) (app.py:672)
CapTrials(n) == IF TRIAL_CAP < n THEN TRIAL_CAP ELSE n

\* the model types tune has an objective for (research.py:111-115)
Objectives_Any == AllTypes

Objectives == {"random_forest", "gradient_boosting", "xgboost"}

InitTune ==
    /\ Constructed
    /\ ThreadsIdle
    /\ ConfIdle
    /\ BatchIdle
    /\ IngIdle
    /\ CalIdle
    /\ LateIdle
    /\ tRequest \in TuneRequests
    /\ tTrials = 0
    /\ tRun = 0
    /\ tPc = "start"
    /\ tStatus = 0
    /\ tOptuna \in BOOLEAN
    /\ tError = "none"
    /\ tBefore = Registry

\* the handler reads predictor._generate_synthetic_data(1000) and nothing else
\* of the predictor (app.py:675)
TuneOnly ==
    UNCHANGED <<regVars, thrVars, confVars, batchVars, ingVars, calVars, lateVars,
                tRequest, tOptuna, tBefore>>

\* optuna is not installed: 501 (app.py:666-668)
TuneUnavailable ==
    /\ tPc = "start"
    /\ ~tOptuna
    /\ tPc' = "sent"
    /\ tStatus' = 501
    /\ tError' = "none"
    /\ UNCHANGED <<tTrials, tRun>>
    /\ TuneOnly

\* int(data.get('nTrials', 50)) raises: 500 (app.py:672, 687-688)
TuneBadCount ==
    /\ tPc = "start"
    /\ tOptuna
    /\ tRequest.kind = "text"
    /\ tPc' = "sent"
    /\ tStatus' = 500
    /\ tError' = "ValueError: invalid literal"
    /\ UNCHANGED <<tTrials, tRun>>
    /\ TuneOnly

\* n_trials = min(int(data.get('nTrials', 50)), 200); tuner.tune(...) raises
\* ValueError for a model_type it has no objective for (app.py:671-678,
\* research.py:111-117)
TuneStart ==
    /\ tPc = "start"
    /\ tOptuna
    /\ tRequest.kind # "text"
    /\ tTrials' = CapTrials(IF tRequest.kind = "missing" THEN DEFAULT_TRIALS
                            ELSE IntParse(tRequest.nTrials))
    /\ IF tRequest.modelType \in Objectives
       THEN tPc' = "optimize" /\ UNCHANGED <<tStatus, tError>>
       ELSE tPc' = "sent" /\ tStatus' = 500
            /\ tError' = "ValueError: Unsupported model_type"
    /\ UNCHANGED tRun
    /\ TuneOnly

\* the objective of the requested family raises at once: _objective_xgb
\* without xgboost (research.py:93-95); a model type with no objective is
\* stopped before the study (research.py:116-117)
ObjectiveRaises(mt, avail) == mt = "xgboost" /\ ~avail

\* study.optimize(..., n_trials=n_trials): one more trial while fewer than
\* n_trials have run (research.py:122)
TuneTrial ==
    /\ tPc = "optimize"
    /\ tRun < tTrials
    /\ ~ObjectiveRaises(tRequest.modelType, xgb)
    /\ tRun' = tRun + 1
    /\ UNCHANGED <<tTrials, tPc, tStatus, tError>>
    /\ TuneOnly

\* the objective raises in a trial (_objective_xgb without xgboost,
\* research.py:93-95): the exception leaves study.optimize, 500
TuneTrialRaises ==
    /\ tPc = "optimize"
    /\ tRun < tTrials
    /\ ObjectiveRaises(tRequest.modelType, xgb)
    /\ tRun' = tRun + 1
    /\ tPc' = "sent"
    /\ tStatus' = 500
    /\ tError' = "ImportError: xgboost required"
    /\ UNCHANGED tTrials
    /\ TuneOnly

\* study.optimize returns; study.best_params raises when no trial was run
\* (research.py:124, app.py:680-688)
TuneRespond ==
    /\ tPc = "optimize"
    /\ tRun >= tTrials
    /\ tPc' = "sent"
    /\ tStatus' = IF tRun = 0 THEN 500 ELSE 200
    /\ tError' = IF tRun = 0 THEN "ValueError: No trials are completed yet" ELSE "none"
    /\ UNCHANGED <<tTrials, tRun>>
    /\ TuneOnly

NextTune ==
    \/ TuneUnavailable
    \/ TuneBadCount
    \/ TuneStart
    \/ TuneTrial
    \/ TuneTrialRaises
    \/ TuneRespond

SpecTune == InitTune /\ [][NextTune]_vars

\* C20: whatever nTrials the request gives, a tuning run never runs more than
\* 200 trials.
C20_TrialsCapped == tRun <= 200

\* C20 witness: a request for 1000 trials has been answered after 200.
C20_Witness ==
    /\ tPc = "sent" /\ tStatus = 200
    /\ tRequest.kind = "num" /\ tRequest.nTrials = 10000
    /\ tRun = 200

\* C21: a tuning request for a model type outside the three families fails
\* with the unsupported-type error before any trial is run, a request for a
\* family whose optional component is absent fails with the import error of
\* its objective, and in both cases the registry is as it was when the
\* request arrived.
C21_TuneFailuresLeaveRegistry ==
    tPc = "sent" =>
        /\ tRequest.modelType \notin ValidTypes =>
              /\ tStatus # 200
              /\ tRun = 0
              /\ (tOptuna /\ tRequest.kind # "text") =>
                    tError = "ValueError: Unsupported model_type"
              /\ Registry = tBefore
        /\ (tRequest.modelType = "xgboost" /\ ~xgb) =>
              /\ tStatus # 200
              /\ (tOptuna /\ tRequest.kind # "text" /\ tTrials >= 1) =>
                    tError = "ImportError: xgboost required"
              /\ Registry = tBefore

\* C21 witness: a request to tune xgboost without xgboost installed has been
\* answered 500 from its first trial, with a loaded model in the registry.
C21_Witness ==
    /\ tPc = "sent" /\ tStatus = 500
    /\ tRequest.modelType = "xgboost" /\ ~xgb /\ tOptuna
    /\ tError = "ImportError: xgboost required"
    /\ tRun = 1
    /\ model # 0 /\ Registry = tBefore

-----------------------------------------------------------------------------
(* Part 7.  The HTTP front of the registry (app.py:91-105, 372-653) *)

TRAIN_MIN == 10        \* len(data['data']) < 10
RETRAIN_MIN == 5       \* len(data['data']) < 5

Routes == {"train", "retrain", "switch", "compare", "predict", "predict_batch",
           "interval", "tune", "info"}

\* the X-API-Key header of a request ("absent": no such header)
Keys == {"absent", "guess", "secret"}

\* the 'data' list of a train or retrain body ("none": the body has no 'data')
Bodies == {"none", "Q", "F", "E", "A", "N"}

HttpRequests ==
    { [route |-> "train", key |-> k, batch |-> b] :
          k \in Keys, b \in {"none", "E", "A"} }
    \cup
    { [route |-> "retrain", key |-> k, batch |-> b] :
          k \in {"absent", "secret"}, b \in {"Q", "F", "N"} }
    \cup
    { [route |-> r, key |-> k, batch |-> "none"] :
          r \in {"switch", "compare", "tune"}, k \in {"absent", "secret"} }
    \cup
    { [route |-> r, key |-> "absent", batch |-> "none"] :
          r \in {"predict", "predict_batch", "interval", "info"} }

\* the routes decorated with @require_api_key (app.py:373, 529, 657)
RequiresKey(route) == route \in {"train", "retrain", "tune"}

\* require_api_key: 503 without ML_API_KEY, 401 when the header differs, else
\* the handler runs (app.py:94-105)
KeyCheck(configured, key) ==
    IF configured = "" THEN 503
    ELSE IF key # configured THEN 401
    ELSE 0

\* the entry checks as they would be without the minimum sizes
TooFew_Never(route, b) == FALSE

\* if 'data' not in data or len(data['data']) < 10 (app.py:395); < 5 for
\* retrain (app.py:537)
TooFew(route, b) ==
    /\ route \in {"train", "retrain"}
    /\ \/ b = "none"
       \/ BatchSize(b) < (IF route = "train" THEN TRAIN_MIN ELSE RETRAIN_MIN)

\* what the decorator and the handler's entry check answer (0: the body runs)
EntryStatus(configured, req) ==
    IF RequiresKey(req.route) /\ KeyCheck(configured, req.key) # 0
    THEN KeyCheck(configured, req.key)
    ELSE IF TooFew(req.route, req.batch) THEN 400
    ELSE 0

\* the parts that are neither the registry nor its HTTP front
HttpOnly ==
    UNCHANGED <<confVars, batchVars, ingVars, calVars, tuneVars, impVars, rateVars,
                envVars>>

InitHttp ==
    /\ Constructed
    /\ ThreadsIdle
    /\ ConfIdle
    /\ BatchIdle
    /\ IngIdle
    /\ CalIdle
    /\ TuneIdle
    /\ ImpIdle
    /\ RateIdle
    /\ EnvIdle
    /\ apiKey \in {"", "secret"}
    /\ hReq = NoHttp
    /\ hResp = 0
    /\ hBefore = NoSnap
    /\ hAdmitted = 0
    /\ cmp = NoCmp
    /\ captured = [t \in Threads |-> NoCapture]

\* a request arrives while no other is served: the decorator and the entry
\* check of its handler
Arrive ==
    /\ AllIdle
    /\ hAdmitted = nops
    /\ nops < MaxOps
    /\ \E req \in HttpRequests :
          /\ hReq' = req
          /\ hResp' = EntryStatus(apiKey, req)
          /\ hAdmitted' = IF EntryStatus(apiKey, req) = 0 THEN hAdmitted + 1
                          ELSE hAdmitted
    /\ hBefore' = Registry
    /\ cmp' = NoCmp
    /\ UNCHANGED <<regVars, thrVars, apiKey, captured>>
    /\ HttpOnly

\* the body of the handler of route r is due
Admitted(r) == hAdmitted > nops /\ hReq.route = r

\* predictor.predict_batch(tasks) (app.py:340, model.py:222-254) reads
\* self.model as predict does
BeginPredictBatch(t, serial) ==
    /\ t \in Readers
    /\ MayStart(t, serial)
    /\ Start(t, "predict_batch", "point")
    /\ UNCHANGED <<heap, model, version, model_type, training_data, disk, now, xgb,
                   instances, reqType, X, inc, fam, mine, res, ret, obs>>

\* GET /api/model/info, GET /api/health (app.py:164-172, 430-440)
BeginInfo(t, serial) ==
    /\ t \in Readers
    /\ MayStart(t, serial)
    /\ Start(t, "info", "info")
    /\ UNCHANGED <<heap, model, version, model_type, training_data, disk, now, xgb,
                   instances, reqType, X, inc, fam, mine, res, ret, obs>>

\* predictor.get_version(), predictor.model_type, predictor.is_loaded()
\* (model.py:256-262)
InfoRead(t) ==
    /\ pc[t] = "info"
    /\ obs' = [obs EXCEPT ![t] = [model |-> model,
                                  fitted |-> model # 0 /\ heap[model].fitted,
                                  version |-> version, during |-> TrainingInFlight # {}]]
    /\ res' = [res EXCEPT ![t] = "ok"]
    /\ Goto(t, "done")
    /\ UNCHANGED <<regVars, op, reqType, X, inc, fam, mine, ret, snap>>

\* POST /api/tune (app.py:656-688): the body of Part 6, which reads
\* predictor._generate_synthetic_data(1000) and nothing else of the predictor
BeginTune(t, serial) ==
    /\ t \in Readers
    /\ MayStart(t, serial)
    /\ Start(t, "tune", "tuning")
    /\ UNCHANGED <<heap, model, version, model_type, training_data, disk, now, xgb,
                   instances, reqType, X, inc, fam, mine, res, ret, obs>>

TuneRun(t) ==
    /\ pc[t] = "tuning"
    /\ \E r \in {"ok", "TuneFailed"} : res' = [res EXCEPT ![t] = r]
    /\ Goto(t, "done")
    /\ UNCHANGED <<regVars, op, reqType, X, inc, fam, mine, ret, snap, obs>>

\* POST /api/predict/interval (app.py:616-653)
BeginInterval(t, serial) ==
    /\ t \in Readers
    /\ MayStart(t, serial)
    /\ Start(t, "interval", "capture")
    /\ UNCHANGED <<heap, model, version, model_type, training_data, disk, now, xgb,
                   instances, reqType, X, inc, fam, mine, res, ret, obs>>

\* cp = ConformalPredictor(predictor.model, alpha=alpha) (app.py:636)
IntervalCapture(t) ==
    /\ pc[t] = "capture"
    /\ captured' = [captured EXCEPT ![t] = [model |-> model, q |-> 0]]
    /\ pc' = [pc EXCEPT ![t] = "calibrate"]
    /\ UNCHANGED <<regVars, op, reqType, X, inc, fam, mine, res, ret, snap, obs>>
    /\ UNCHANGED <<apiKey, hReq, hResp, hBefore, hAdmitted, cmp>>
    /\ HttpOnly

\* the residual quantiles a calibration on the synthetic split can give, in
\* hundredths: narrow for alpha near 1, wide for alpha near 0
HalfWidths == {2, 150}

\* cp.calibrate(X_cal, y_cal); cp.predict_interval(X_single) (app.py:637-640):
\* both call predict on the estimator cp holds, which raises NotFittedError on
\* an unfitted one
IntervalCalibrate(t) ==
    /\ pc[t] = "calibrate"
    /\ IF captured[t].model # 0 /\ heap[captured[t].model].fitted
       THEN /\ \E q \in HalfWidths : captured' = [captured EXCEPT ![t].q = q]
            /\ pc' = [pc EXCEPT ![t] = "point"]
            /\ UNCHANGED res
       ELSE /\ pc' = [pc EXCEPT ![t] = "done"]
            /\ res' = [res EXCEPT ![t] = "NotFitted"]
            /\ UNCHANGED captured
    /\ UNCHANGED <<regVars, op, reqType, X, inc, fam, mine, ret, snap, obs>>
    /\ UNCHANGED <<apiKey, hReq, hResp, hBefore, hAdmitted, cmp>>
    /\ HttpOnly

\* model_types of compare_models: xgboost is tried when it can be imported
\* (app.py:490-497)
CompareTypes(avail) ==
    IF avail THEN <<"random_forest", "gradient_boosting", "xgboost">>
    ELSE <<"random_forest", "gradient_boosting">>

\* POST /api/model/compare: original_type = predictor.model_type, then the first
\* predictor.switch_model(model_type) of the loop (app.py:487-501)
BeginCompare(t) ==
    /\ t \in Writers
    /\ MayStart(t, TRUE)
    /\ cmp' = [i |-> 1, orig |-> model_type]
    /\ pc' = [pc EXCEPT ![t] = "validate"]
    /\ op' = [op EXCEPT ![t] = "switch_model"]
    /\ reqType' = [reqType EXCEPT ![t] = CompareTypes(xgb)[1]]
    /\ snap' = [snap EXCEPT ![t] = Registry]
    /\ nops' = nops + 1
    /\ UNCHANGED <<heap, model, version, model_type, training_data, disk, now, xgb,
                   instances, X, inc, fam, mine, res, ret, obs>>
    /\ UNCHANGED <<apiKey, hReq, hResp, hBefore, hAdmitted, captured>>
    /\ HttpOnly

\* compare_models: the predictor.predict of this round, then the switch_model of
\* the next one, and after the last round predictor.switch_model(original_type)
\* (app.py:499-511)
CompareNext(t) ==
    /\ pc[t] = "done"
    /\ hReq.route = "compare"
    /\ cmp.i >= 1
    /\ cmp.i <= Len(CompareTypes(xgb))
    /\ cmp' = [cmp EXCEPT !.i = cmp.i + 1]
    /\ reqType' = [reqType EXCEPT ![t] = IF cmp.i < Len(CompareTypes(xgb))
                                         THEN CompareTypes(xgb)[cmp.i + 1]
                                         ELSE cmp.orig]
    /\ pc' = [pc EXCEPT ![t] = "validate"]
    /\ X' = [X EXCEPT ![t] = <<>>]
    /\ fam' = [fam EXCEPT ![t] = "none"]
    /\ mine' = [mine EXCEPT ![t] = 0]
    /\ res' = [res EXCEPT ![t] = "none"]
    /\ ret' = [ret EXCEPT ![t] = NoRet]
    /\ snap' = [snap EXCEPT ![t] = Registry]
    /\ UNCHANGED <<regVars, op, inc, obs>>
    /\ UNCHANGED <<apiKey, hReq, hResp, hBefore, hAdmitted, captured>>
    /\ HttpOnly

\* the body of the request has run to its response
BodyOver(t) == hReq.route = "compare" => cmp.i > Len(CompareTypes(xgb))

\* one request at a time through the HTTP front; the clock is read once in a
\* request (model.py:118), so time is let pass between requests
NextHttp ==
    \/ Arrive
    \/ Admitted("train") /\ \E t \in Threads :
          BeginTrain(t, TRUE) /\ X'[t] = <<hReq.batch>>
    \/ Admitted("retrain") /\ \E t \in Threads :
          BeginRetrain(t, TRUE) /\ X'[t] = <<hReq.batch>>
    \/ Admitted("switch") /\ \E t \in Threads : BeginSwitch(t, TRUE)
    \/ Admitted("compare") /\ \E t \in Threads : BeginCompare(t)
    \/ Admitted("predict") /\ \E t \in Threads : BeginPredict(t, TRUE)
    \/ Admitted("predict_batch") /\ \E t \in Threads : BeginPredictBatch(t, TRUE)
    \/ Admitted("interval") /\ \E t \in Threads : BeginInterval(t, TRUE)
    \/ Admitted("tune") /\ \E t \in Threads : BeginTune(t, TRUE)
    \/ Admitted("info") /\ \E t \in Threads : BeginInfo(t, TRUE)
    \/ \E t \in Threads : Combine(t)
    \/ \E t \in Threads : SwitchReject(t)
    \/ \E t \in Threads : SwitchValidate(t)
    \/ \E t \in Threads : SwitchSetType(t)
    \/ \E t \in Threads : TrainBranch(t)
    \/ \E t \in Threads : TrainCreate(t)
    \/ \E t \in Threads : TrainFit(t)
    \/ \E t \in Threads : TrainFitRaises(t)
    \/ \E t \in Threads : TrainCv(t)
    \/ \E t \in Threads : TrainVersion(t)
    \/ \E t \in Threads : TrainSave(t)
    \/ \E t \in Threads : TrainReturn(t)
    \/ \E t \in Threads : PredictPoint(t)
    \/ \E t \in Threads : PredictConf(t)
    \/ \E t \in Threads : PredictVersion(t)
    \/ \E t \in Threads : InfoRead(t)
    \/ \E t \in Threads : TuneRun(t)
    \/ \E t \in Threads : IntervalCapture(t)
    \/ \E t \in Threads : IntervalCalibrate(t)
    \/ \E t \in Threads : CompareNext(t)
    \/ \E t \in Threads : BodyOver(t) /\ Finish(t)
    \/ AllIdle /\ Tick

SpecHttp == InitHttp /\ [][NextHttp]_vars

-----------------------------------------------------------------------------
(* Part 7.  Claims about the HTTP front and about call sequences *)

\* C22: a train request with fewer than 10 examples, and a retrain request
\* with fewer than 5, is answered with a rejection before any statement of the
\* Training Pipeline runs, and the active model, its version, its model_type
\* and the accumulated dataset are as they were when the request arrived.
C22_SmallSetsRejected ==
    LET tooSmall ==
            /\ hReq.batch # "none"
            /\ \/ hReq.route = "train" /\ BatchSize(hReq.batch) < 10
               \/ hReq.route = "retrain" /\ BatchSize(hReq.batch) < 5
    IN tooSmall =>
          /\ hResp \in {400, 401, 503}
          /\ (apiKey # "" /\ hReq.key = apiKey) => hResp = 400
          /\ AllIdle
          /\ hAdmitted = nops
          /\ Registry = hBefore

\* C22 witness: after a retrain that stored its examples, a retrain request
\* with four examples and the right key has been answered 400.
C22_Witness ==
    /\ hReq.route = "retrain" /\ hReq.batch = "Q"
    /\ apiKey = "secret" /\ hReq.key = "secret"
    /\ hResp = 400
    /\ nops = 1 /\ training_data # <<>>
    /\ Registry = hBefore

ReadOps == {"predict", "predict_batch", "info", "interval", "tune"}

\* C23: while a predict, predict_batch, is_loaded / get_version, calibrated
\* prediction or tuning request is served, and when it has ended, with or
\* without an error, the active model, the version, the model_type and the
\* accumulated dataset are those from before the request; only train, retrain
\* and switch_model change them.
C23_ReadersLeaveRegistry ==
    \A t \in Threads :
        op[t] \in ReadOps =>
            /\ Registry = snap[t]
            /\ Registry = hBefore
            /\ heap[model] = heap[snap[t].model]

\* C23 witness: after a training request replaced the model, a calibrated
\* prediction has been served to its end.
C23_Witness ==
    \E t \in Threads :
        /\ op[t] = "interval" /\ pc[t] = "done" /\ res[t] = "ok"
        /\ nops = 2 /\ Len(heap) > 1
        /\ captured[t].model = model

\* C26: when the training step of a retrain fails, the accumulated dataset is
\* the one from before the call.
C26_FailedRetrainKeepsDataset ==
    \A t \in Writers :
        (pc[t] = "done" /\ op[t] = "retrain" /\ res[t] = "TrainingFailed") =>
            training_data = snap[t].training_data

\* C27: a train, retrain, model switch or model compare request without the
\* configured API key, or with no API key configured, is refused by the key
\* check and leaves the registry as it was.
C27_TrainingNeedsKey ==
    (hReq.route \in {"train", "retrain", "switch", "compare"}
         /\ (apiKey = "" \/ hReq.key # apiKey)) =>
        /\ hResp \in {401, 503}
        /\ Registry = hBefore

\* C28: after construction and after every train, retrain or switch_model
\* call, model_type is one of random_forest, xgboost and gradient_boosting and
\* is the family of the estimator self.model holds.
C28_TypeNamesFamily ==
    (\A t \in Threads : pc[t] \in {"idle", "done"}) =>
        /\ model # 0
        /\ model_type \in ValidTypes
        /\ heap[model].family = model_type

\* C28 witness: a switch to xgboost without xgboost installed has returned.
C28_Witness ==
    \E t \in Writers :
        /\ pc[t] = "done" /\ op[t] = "switch_model" /\ res[t] = "ok"
        /\ reqType[t] = "xgboost" /\ ~xgb
        /\ heap[model].family = "random_forest"

-----------------------------------------------------------------------------
(* Part 7.  The interval handler beside a switch_model (SpecPar) *)

\* self.model.predict(X)[0] for the request's features, in hundredths: the
\* synthetic data is generated with a fixed seed and every family is built with
\* random_state=42, so the estimate is a function of the family
PointOf(family) ==
    CASE family = "random_forest" -> 250
      [] family = "gradient_boosting" -> 262
      [] family = "xgboost" -> 241

\* the values of the response: (lower, upper) from the estimator cp holds
\* (research.py:215-217), predictedTime from predictor.predict (app.py:641)
IntervalLower(t) == PointOf(heap[captured[t].model].family) - captured[t].q
IntervalUpper(t) == PointOf(heap[captured[t].model].family) + captured[t].q
IntervalPoint(t) == PointOf(heap[obs[t].model].family)

\* one thread switches the model while another serves interval requests
NextPar ==
    \/ \E t \in {"w1"} : BeginSwitch(t, FALSE)
    \/ \E t \in {"w1"} : SwitchReject(t)
    \/ \E t \in {"w1"} : SwitchValidate(t)
    \/ \E t \in {"w1"} : SwitchSetType(t)
    \/ \E t \in {"w1"} : TrainBranch(t)
    \/ \E t \in {"w1"} : TrainCreate(t)
    \/ \E t \in {"w1"} : TrainFit(t)
    \/ \E t \in {"w1"} : TrainCv(t)
    \/ \E t \in {"w1"} : TrainVersion(t)
    \/ \E t \in {"w1"} : TrainSave(t)
    \/ \E t \in {"w1"} : TrainReturn(t)
    \/ \E t \in Readers : BeginInterval(t, FALSE)
    \/ \E t \in Readers : IntervalCapture(t)
    \/ \E t \in Readers : IntervalCalibrate(t)
    \/ \E t \in Readers : PredictPoint(t)
    \/ \E t \in Readers : PredictConf(t)
    \/ \E t \in Readers : PredictVersion(t)
    \/ \E t \in Threads : Finish(t)
    \/ Tick

SpecPar == Init /\ [][NextPar]_vars

\* C29: in every calibrated-prediction response the predicted time lies
\* between lower and upper, and the interval, the predicted time and the
\* modelVersion come from one Model Instance, also when a switch_model
\* completes while the request is served.
C29_IntervalFromOneInstance ==
    \A r \in Readers :
        (pc[r] = "done" /\ op[r] = "interval" /\ res[r] = "ok") =>
            /\ IntervalLower(r) <= IntervalPoint(r)
            /\ IntervalPoint(r) <= IntervalUpper(r)
            /\ obs[r].model = captured[r].model
            /\ \E i \in instances : i[1] = captured[r].model /\ i[2] = obs[r].version

-----------------------------------------------------------------------------
(* Part 8.  The feature importances of train's metrics (model.py:123-140) *)

\* Parts 1 to 7 at rest
CoreOff ==
    /\ RegistryOff
    /\ ConfIdle
    /\ BatchIdle
    /\ IngIdle
    /\ CalIdle
    /\ TuneIdle
    /\ HttpIdle

\* one importance as the ensemble can report it, in hundred-thousandths
ImportanceGrid == {0, 5, 12345, 33335, 49995}

\* feature_importances_ of a fitted RandomForest, GradientBoosting or XGBoost
\* regressor: the per-feature gains divided by their sum, so four values that
\* sum to 1; when no tree of the ensemble has a split (all labels equal, or
\* all feature rows equal) there is no gain to divide and the vector is all
\* zeros
NoSplit == <<0, 0, 0, 0>>

RawImportances ==
    { v \in { <<a, b, c, 100000 - a - b - c>> :
                  a \in ImportanceGrid, b \in ImportanceGrid, c \in ImportanceGrid } :
          v[4] >= 0 }
    \cup {NoSplit}

\* round(float(importance[i]), 4) (model.py:135-138)
Round4(x) == RoundHalfEven(x, 10)

\* importance = self.model.feature_importances_ if the model has the attribute,
\* else [0.25, 0.25, 0.25, 0.25]; each entry rounded to 4 decimals
\* (model.py:124-127, 134-139)
ReportedImportance(exposes, raw) ==
    IF exposes THEN [i \in 1..4 |-> Round4(raw[i])]
    ELSE <<2500, 2500, 2500, 2500>>

InitImp ==
    /\ CoreOff
    /\ RateIdle
    /\ EnvIdle
    /\ impExposes \in BOOLEAN
    /\ impRaw \in RawImportances
    /\ impMetrics = <<>>
    /\ impPc = "fitted"

ImpOnly ==
    UNCHANGED <<regVars, thrVars, confVars, batchVars, ingVars, calVars, tuneVars,
                httpVars, rateVars, envVars, impExposes, impRaw>>

\* train, from after the fit to the return of the metrics (model.py:123-144)
TrainMetrics ==
    /\ impPc = "fitted"
    /\ impMetrics' = ReportedImportance(impExposes, impRaw)
    /\ impPc' = "returned"
    /\ ImpOnly

NextImp == TrainMetrics

SpecImp == InitImp /\ [][NextImp]_vars

\* C24: after a training call the four reported feature importances sum to
\* 1.0 within 0.01, when the model exposes importances and on the 0.25
\* fallback.
C24_ImportancesSumToOne ==
    impPc = "returned" =>
        Abs(impMetrics[1] + impMetrics[2] + impMetrics[3] + impMetrics[4] - 10000) <= 100

-----------------------------------------------------------------------------
(* Part 9.  rate_limit (app.py:107-130), one statement per step *)

\* the settings of a deployment: RATE_LIMIT_MAX and RATE_LIMIT_WINDOW are read
\* from the environment (app.py:115-116); this one admits 2 requests per 2
\* seconds
RATE_LIMIT_MAX == 2
RATE_LIMIT_WINDOW == 2

InitRate ==
    /\ CoreOff
    /\ ImpIdle
    /\ EnvIdle
    /\ rlStore = [i \in Ips |-> <<>>]
    /\ rlClock = 0
    /\ rlPc = [t \in RlThreads |-> "idle"]
    /\ rlIp = [t \in RlThreads |-> "none"]
    /\ rlNow = [t \in RlThreads |-> 0]
    /\ rlList = [t \in RlThreads |-> <<>>]
    /\ rlAdmitted = <<>>
    /\ rlCount = 0

RateOnly ==
    UNCHANGED <<regVars, thrVars, confVars, batchVars, ingVars, calVars, tuneVars,
                httpVars, impVars, envVars>>

\* ip = request.remote_addr or 'unknown'; now = time.time() (app.py:121-122).
\* The threaded server runs the wrapper for several requests at a time
\* (serial = FALSE); serial = TRUE lets one request through the wrapper at a time
RlStart(t, serial) ==
    /\ rlPc[t] = "idle"
    /\ serial => \A u \in RlThreads : rlPc[u] = "idle"
    /\ rlCount < MaxRl
    /\ rlCount' = rlCount + 1
    /\ \E ip \in Ips : rlIp' = [rlIp EXCEPT ![t] = ip]
    /\ rlNow' = [rlNow EXCEPT ![t] = rlClock]
    /\ rlPc' = [rlPc EXCEPT ![t] = "filter"]
    /\ UNCHANGED <<rlStore, rlClock, rlList, rlAdmitted>>
    /\ RateOnly

\* [t for t in _rate_limit_store[ip] if t > now - RATE_LIMIT_WINDOW] (app.py:125)
Recent(list, at) == SelectSeq(list, LAMBDA x : x > at - RATE_LIMIT_WINDOW)

\* the list comprehension of app.py:125 is evaluated
RlFilter(t) ==
    /\ rlPc[t] = "filter"
    /\ rlList' = [rlList EXCEPT ![t] = Recent(rlStore[rlIp[t]], rlNow[t])]
    /\ rlPc' = [rlPc EXCEPT ![t] = "assign"]
    /\ UNCHANGED <<rlStore, rlClock, rlIp, rlNow, rlAdmitted, rlCount>>
    /\ RateOnly

\* _rate_limit_store[ip] = <the list> (app.py:125)
RlAssign(t) ==
    /\ rlPc[t] = "assign"
    /\ rlStore' = [rlStore EXCEPT ![rlIp[t]] = rlList[t]]
    /\ rlPc' = [rlPc EXCEPT ![t] = "check"]
    /\ UNCHANGED <<rlClock, rlIp, rlNow, rlList, rlAdmitted, rlCount>>
    /\ RateOnly

\* if len(_rate_limit_store[ip]) >= RATE_LIMIT_MAX: return 429 (app.py:126-127)
RlCheck(t) ==
    /\ rlPc[t] = "check"
    /\ rlPc' = [rlPc EXCEPT ![t] = IF Len(rlStore[rlIp[t]]) >= RATE_LIMIT_MAX
                                   THEN "idle" ELSE "append"]
    /\ UNCHANGED <<rlStore, rlClock, rlIp, rlNow, rlList, rlAdmitted, rlCount>>
    /\ RateOnly

\* _rate_limit_store[ip].append(now); return f(*args, **kwargs) (app.py:128-129)
RlAppend(t) ==
    /\ rlPc[t] = "append"
    /\ rlStore' = [rlStore EXCEPT ![rlIp[t]] = Append(@, rlNow[t])]
    /\ rlAdmitted' = Append(rlAdmitted, [ip |-> rlIp[t], at |-> rlNow[t]])
    /\ rlPc' = [rlPc EXCEPT ![t] = "idle"]
    /\ UNCHANGED <<rlClock, rlIp, rlNow, rlList, rlCount>>
    /\ RateOnly

\* a second passes
RlTick ==
    /\ rlClock < MaxRlClock
    /\ rlClock' = rlClock + 1
    /\ UNCHANGED <<rlStore, rlPc, rlIp, rlNow, rlList, rlAdmitted, rlCount>>
    /\ RateOnly

NextRate ==
    \/ \E t \in RlThreads : RlStart(t, FALSE)
    \/ \E t \in RlThreads : RlFilter(t)
    \/ \E t \in RlThreads : RlAssign(t)
    \/ \E t \in RlThreads : RlCheck(t)
    \/ \E t \in RlThreads : RlAppend(t)
    \/ RlTick

SpecRate == InitRate /\ [][NextRate]_vars

\* the same wrapper with one request inside it at a time
NextRateSeq ==
    \/ \E t \in RlThreads : RlStart(t, TRUE)
    \/ \E t \in RlThreads : RlFilter(t)
    \/ \E t \in RlThreads : RlAssign(t)
    \/ \E t \in RlThreads : RlCheck(t)
    \/ \E t \in RlThreads : RlAppend(t)
    \/ RlTick

SpecRateSeq == InitRate /\ [][NextRateSeq]_vars

\* the requests of ip admitted in the window of RATE_LIMIT_WINDOW seconds that
\* ends at second T
AdmittedIn(ip, T) ==
    { i \in 1..Len(rlAdmitted) :
          /\ rlAdmitted[i].ip = ip
          /\ rlAdmitted[i].at > T - RATE_LIMIT_WINDOW
          /\ rlAdmitted[i].at <= T }

\* C25: for each client IP, at most RATE_LIMIT_MAX requests are admitted within
\* any window of RATE_LIMIT_WINDOW seconds, also when threads serve requests
\* of that IP concurrently; and the times counted for an IP are those of its
\* own admitted requests.
C25_AtMostMaxPerWindow ==
    \A ip \in Ips :
        /\ \A T \in 0..MaxRlClock : Cardinality(AdmittedIn(ip, T)) <= RATE_LIMIT_MAX
        /\ \A k \in 1..Len(rlStore[ip]) :
              \E i \in 1..Len(rlAdmitted) :
                  rlAdmitted[i] = [ip |-> ip, at |-> rlStore[ip][k]]

-----------------------------------------------------------------------------
(* Part 10.  PPOSchedulerEnv (research.py:266-343) *)

\* env = PPOSchedulerEnv(n_resources, max_steps) (research.py:281-292), for an
\* environment with at least one resource and an episode of at least one step
InitEnv ==
    /\ CoreOff
    /\ ImpIdle
    /\ RateIdle
    /\ envN \in 1..MaxResources
    /\ envMax \in 1..MaxEpisode
    /\ envLoads = [i \in 1..envN |-> 0]
    /\ envStep = 0
    /\ envTask = FALSE
    /\ envDone = FALSE
    /\ envLast = "init"
    /\ envWas = NoEnv

EnvOnly ==
    UNCHANGED <<regVars, thrVars, confVars, batchVars, ingVars, calVars, tuneVars,
                httpVars, impVars, rateVars, envN, envMax>>

EnvNow == [loads |-> envLoads, step |-> envStep, task |-> envTask]

\* reset (research.py:294-298)
EnvReset ==
    /\ envLoads' = [i \in 1..envN |-> 0]
    /\ envStep' = 0
    /\ envTask' = TRUE
    /\ envDone' = FALSE
    /\ envLast' = "reset"
    /\ envWas' = EnvNow
    /\ EnvOnly

\* step as it would be if the episode ended one step later
EnvDone_Late(count, max) == count > max

\* done = self.step_count >= self.max_steps (research.py:320)
EnvDone(count, max) == count >= max

\* self.resource_loads[action] = min(100, load + 15) (research.py:313)
LoadAfter(load) == IF load + LOAD_STEP > LOAD_CAP THEN LOAD_CAP ELSE load + LOAD_STEP

\* step(action) with 0 <= action < n_resources (research.py:300-324): the
\* assertion on self._current_task fails before anything is assigned
EnvStep ==
    /\ \E action \in 0..(envN - 1) :
          IF ~envTask
          THEN /\ envLast' = "AssertionError"
               /\ UNCHANGED <<envLoads, envStep, envTask, envDone>>
          ELSE /\ envLoads' = [envLoads EXCEPT ![action + 1] = LoadAfter(@)]
               /\ envStep' = envStep + 1
               /\ envDone' = EnvDone(envStep + 1, envMax)
               /\ envTask' = ~EnvDone(envStep + 1, envMax)
               /\ envLast' = "step"
    /\ envWas' = EnvNow
    /\ EnvOnly

\* step(action) with an action outside 0..n_resources-1: the first assertion
\* fails (research.py:301)
EnvStepBadAction ==
    /\ \E action \in {-1, envN} :
          /\ envLast' = "AssertionError"
          /\ UNCHANGED <<envLoads, envStep, envTask, envDone>>
    /\ envWas' = EnvNow
    /\ EnvOnly

NextEnv ==
    \/ EnvReset
    \/ EnvStep
    \/ EnvStepBadAction

SpecEnv == InitEnv /\ [][NextEnv]_vars

\* C30: after reset and any sequence of step calls, every resource load is
\* within [0, 100] and no step lowers one, step_count never exceeds max_steps,
\* a step returns done exactly when it is the max_steps-th of the episode, and
\* a step issued after done or before reset fails its assertion and leaves
\* the loads, the step count and the task as they were.
C30_EpisodeInvariants ==
    /\ \A i \in 1..envN : 0 <= envLoads[i] /\ envLoads[i] <= 100
    /\ envStep <= envMax
    /\ envLast = "step" =>
          /\ envWas.task
          /\ envStep = envWas.step + 1
          /\ \A i \in 1..envN : envLoads[i] >= envWas.loads[i]
          /\ envDone <=> (envStep = envMax)
          /\ envDone <=> ~envTask
    /\ envLast = "AssertionError" => EnvNow = envWas
    /\ envLast = "init" => ~envTask

\* C30 witness: a step issued after the episode was done has failed, with a
\* load at the cap.
C30_Witness ==
    /\ envLast = "AssertionError"
    /\ envStep = envMax /\ envDone /\ ~envTask
    /\ \E i \in 1..envN : envLoads[i] = 100

====
